---- MODULE Spec2Model ----
(***************************************************************************)
(* Model of the Real-Estate-Browser-Agent pipeline.                        *)
(*                                                                         *)
(*   Spec        capture_property_screenshots (property_screenshotter.py)  *)
(*               driven through the agent action take_screenshots by       *)
(*               process_property_listing (five_property_details_agent.py) *)
(*   LiveSpec    the same scan with every page-driver operation            *)
(*               succeeding and the scanner scheduled fairly               *)
(*   AnalyzeSpec analyze_real_estate_images and run_example                *)
(*               (four_all_screenshots_analyzer.py)                        *)
(*   ReconSpec   check_property_updates (update.py): the comparison of the *)
(*               stored and the current listings and the parse of its      *)
(*               answer                                                    *)
(*   CloseSpec   listings_page (one_listings_page.py) and its handles      *)
(*   SessSpec    the screenshot paths of two scans that run at the same    *)
(*               time on two websites (create_directory)                   *)
(*   DirSpec     one screenshot directory over several scans, listed by    *)
(*               get_image_paths                                           *)
(*   OpsSpec     capture_property_screenshots, every awaited page-driver   *)
(*               operation issued and completed as two steps               *)
(*   SendSpec    the screenshot directory the scanner writes and the one   *)
(*               analyze_property_details reads, over properties and runs  *)
(*   StoreSpec   get_properties_by_url and the report of its caller         *)
(*   OrchSpec    the per-property loop of process_real_estate_company      *)
(*               (main.py) and check_property_updates (update.py)          *)
(***************************************************************************)
EXTENDS Integers, Sequences, FiniteSets, TLC

(***************************************************************************)
(* Bounds of the model.                                                    *)
(***************************************************************************)
\* viewport heights 1..MaxV
MaxV == 4
\* document heights 0..MaxH
MaxH == 5
\* number of times the page changes its height during one scan
MaxChanges == 2
\* captures after which a scan is cut off (never reached when the step is positive)
MaxShots == MaxH + 2
\* length of an arbitrary oracle response, in characters
MaxLen == 5
\* length of a listing name, in characters
MaxNameLen == 3
\* number of listings the oracle writes in a well-formed response
MaxNames == 2
\* length of an arbitrary comparison response, in characters
MaxCmpLen == 3
\* number of strings in a bracketed list the comparison oracle writes
MaxListed == 2
\* number of listings already stored (existing_properties)
MaxExisting == 1
\* number of listings read off the current screenshots (current_properties)
MaxCurrent == 1
\* links on the company page
MaxLinks == 2
\* words in the answer that ranks the links
MaxWords == 2
\* property numbers of a session
MaxNumber == 2
\* screenshots one session writes
MaxSessShots == 2
\* scans into one directory
MaxScans == 2
\* screenshots of one scan
MaxScanLen == 3
\* properties in the list an orchestrator walks through
MaxViewportChecked == 2000
MaxRuns == 2
MaxStored == 2
MaxProps == 3

(***************************************************************************)
(* Program constants.                                                      *)
(***************************************************************************)
\* window.scrollBy(0, 150)
JiggleDelta == 150

VARIABLES
    \* ---- the page (PageDriver side) ----
    viewport_height,    \* page.viewport_size['height']
    docHeight,          \* document.documentElement.scrollHeight, as the page has it now
    changes,            \* height changes of the page so far
    scrollY,            \* offset last requested from the page (scrollTo / scrollBy)
    \* ---- capture_property_screenshots locals ----
    pc,                 \* position in capture_property_screenshots
    page_height,
    current_scroll,
    screenshot_count,
    scroll_step,
    screenshot_paths,   \* the <i> of each screenshot_<i>.png appended, in order
    \* ---- history of the scan ----
    offsets,            \* scrollY at each page.screenshot, in order
    lastMeasured,       \* value most recently read from scrollHeight (-1: none yet)
    maxMeasured,        \* largest value read from scrollHeight (-1: none yet)
    driverFailed,       \* a page-driver operation raised
    scanResult,         \* what capture_property_screenshots gave its caller
    \* ---- process_property_listing ----
    agentOutcome,       \* how agent.run ended
    status,             \* "status" of the dict process_property_listing returns
    \* ---- analyze_real_estate_images / run_example ----
    apc,                \* position in analyze_real_estate_images
    image_paths,        \* number of image files get_image_paths found
    content,            \* response.choices[0].message.content, a sequence of characters
    contentIsNone,      \* message.content is None
    oracleNames,        \* the listing names the oracle wrote as "- <name>" lines
    wellFormed,         \* the response is exactly those lines
    oracle_calls,       \* client.chat.completions.create calls issued
    oracleFailed,       \* the create call raised
    analyzeResult,      \* outcome of analyze_real_estate_images
    exampleResult,      \* outcome of run_example
    \* ---- check_property_updates ----
    rpc,                \* position in check_property_updates
    existing_properties,
    current_properties,
    ai_response,        \* content of the comparison response, a sequence of characters
    respShape,          \* how the comparison oracle built its response
    cmp_calls,          \* comparison requests issued (update.py line 79)
    vision_calls,       \* analyze_real_estate_images calls issued (update.py line 62)
    cmpFailed,          \* the comparison request raised
    visionFailed,       \* analyze_real_estate_images raised
    parseKind,          \* how lines 113-126 ended
    new_properties,
    updateResult,       \* outcome of check_property_updates
    \* ---- listings_page ----
    lpc,                \* position in listings_page
    playwrightRunning,  \* inside `async with async_playwright()`
    browserOpen,
    contextOpen,
    pageOpen,
    lpFailedAt,         \* the step that raised ("none": no step raised)
    links,              \* link texts read from the page, in document order
    link_dict,          \* link text -> position of the link that supplied its href
    top_urls,           \* the URLs found in the answer
    lpResult,           \* outcome of listings_page
    \* ---- two scan sessions writing screenshots ----
    sessHost,           \* netloc of the page each session scans
    sessNumber,         \* property number of each session
    sessCount,          \* screenshot_count of each session
    written,            \* [path, session] for every file written
    \* ---- one screenshot directory over several scans ----
    dpc,                \* "ready" for a scan, "scanning", "scanned", "listed"
    ctimeKind,          \* what os.path.getctime reports on the platform
    clock,              \* file-system time
    ctime,              \* os.path.getctime of screenshot_<i>.png, for the files there are
    scanLen,            \* number of captures of the scan under way / last finished
    scanPos,            \* captures the scan under way has written
    scansDone,
    listing,            \* what get_image_paths returned
    \* ---- the per-property loop of process_real_estate_company / check_property_updates ----
    opc,                \* position in the per-property loop
    orch,               \* which orchestrator runs the loop
    nProps,             \* len(property_list) / len(new_properties)
    idx,                \* the property number of the iteration
    attempted,          \* property numbers handed to process_property_listing, in order
    outcomes,           \* how the iteration of each attempted property ended
    all_properties_data,    \* property numbers whose data was appended
    firebase_uploads,
    outerRaised,        \* an exception reached the outer except clause
    \* ---- capture_property_screenshots, one page-driver operation at a time ----
    suspended,          \* the coroutine waits in an await for the operation it issued
    inflight,           \* page-driver operations issued and not yet completed
    opIndex,            \* operations of the current step already completed
    opLog,              \* every page-driver operation issued, in order
    animating,          \* a smooth scroll is in progress in the page
    \* ---- Send ----
    spc,                \* position in the capture-then-analyse sequence of one property
    run,                \* the run of the orchestrator
    sendIdx,            \* idx of the property being processed
    analyzerHost,       \* host of the URL the orchestrator passes to the analyzer
    pageHost,           \* host of the property page at scan time
    disk,               \* screenshot files on disk and the scan that wrote each
    captured,           \* paths written by the scan of this property in this run
    sent,               \* paths analyze_property_details reads and sends
    sendRaised,         \* analyze_property_details found no image
    \* ---- Store ----
    stpc,               \* position in get_properties_by_url and its caller
    properties,         \* the properties node of the store, in iteration order
    search,             \* the url argument
    storeFails,         \* the step of the read that raises, if any
    storeResult,        \* what get_properties_by_url returns
    callerReports       \* what check_property_updates prints about the stored names

scanVars == <<viewport_height, docHeight, changes, scrollY, pc, page_height,
              current_scroll, screenshot_count, scroll_step, screenshot_paths,
              offsets, lastMeasured, maxMeasured, driverFailed, scanResult,
              agentOutcome, status>>

analyzeVars == <<apc, image_paths, content, contentIsNone, oracleNames, wellFormed,
                 oracle_calls, oracleFailed, analyzeResult, exampleResult>>

reconVars == <<rpc, existing_properties, current_properties, ai_response, respShape,
               cmp_calls, vision_calls, cmpFailed, visionFailed, parseKind,
               new_properties, updateResult>>

closeVars == <<lpc, playwrightRunning, browserOpen, contextOpen, pageOpen, lpFailedAt,
               links, link_dict, top_urls, lpResult>>

sessVars == <<sessHost, sessNumber, sessCount, written>>

dirVars == <<dpc, ctimeKind, clock, ctime, scanLen, scanPos, scansDone, listing>>

orchVars == <<opc, orch, nProps, idx, attempted, outcomes, all_properties_data,
              firebase_uploads, outerRaised>>

opsVars == <<suspended, inflight, opIndex, opLog, animating>>

sendVars == <<spc, run, sendIdx, analyzerHost, pageHost, disk, captured, sent, sendRaised>>

storeVars == <<stpc, properties, search, storeFails, storeResult, callerReports>>

vars == <<scanVars, analyzeVars, reconVars, closeVars, sessVars, dirVars, orchVars, opsVars, sendVars, storeVars>>

\* what the actions of one component leave alone
nonScanVars == <<analyzeVars, reconVars, closeVars, sessVars, dirVars, orchVars, opsVars, sendVars, storeVars>>
nonAnalyzeVars == <<scanVars, reconVars, closeVars, sessVars, dirVars, orchVars, opsVars, sendVars, storeVars>>
nonReconVars == <<scanVars, analyzeVars, closeVars, sessVars, dirVars, orchVars, opsVars, sendVars, storeVars>>
nonCloseVars == <<scanVars, analyzeVars, reconVars, sessVars, dirVars, orchVars, opsVars, sendVars, storeVars>>
nonSessVars == <<scanVars, analyzeVars, reconVars, closeVars, dirVars, orchVars, opsVars, sendVars, storeVars>>
nonDirVars == <<scanVars, analyzeVars, reconVars, closeVars, sessVars, orchVars, opsVars, sendVars, storeVars>>
nonOrchVars == <<scanVars, analyzeVars, reconVars, closeVars, sessVars, dirVars, opsVars, sendVars, storeVars>>
nonOpsVars == <<scanVars, analyzeVars, reconVars, closeVars, sessVars, dirVars, orchVars, sendVars, storeVars>>
nonScanOpsVars == <<analyzeVars, reconVars, closeVars, sessVars, dirVars, orchVars, sendVars, storeVars>>
nonSendVars == <<scanVars, analyzeVars, reconVars, closeVars, sessVars, dirVars, orchVars, opsVars, storeVars>>
nonStoreVars == <<scanVars, analyzeVars, reconVars, closeVars, sessVars, dirVars, orchVars, opsVars, sendVars>>

Last(s) == s[Len(s)]

(***************************************************************************)
(* capture_property_screenshots                                            *)
(***************************************************************************)

\* a step of 1.8 viewports: consecutive captures no longer overlap
ScrollStepNoOverlap(v) == (v * 18) \div 10

\* int(viewport_height) * int(0.8): the factor truncated before the product
ScrollStepTruncated(v) == v * 0

\* the product rounded up instead of truncated
ScrollStepRoundedUp(v) == (v * 8 + 9) \div 10

\* scroll_step = int(viewport_height * 0.8)
ScrollStep(v) == (v * 8) \div 10

\* page_height = new_height, whatever was held before
UpdatedPageHeightLatest(ph, new_height) == new_height

\* if new_height > page_height: page_height = new_height
UpdatedPageHeight(ph, new_height) == IF new_height > ph THEN new_height ELSE ph

\* the final capture taken at the stepped offset instead of the bottom
FinalScrollTargetStepped(ph, cs) == cs

\* window.scrollTo(0, {page_height}) of the final capture
FinalScrollTarget(ph, cs) == ph

\* the increment of the counter left out
NextScreenshotCountStuck(c) == c

\* screenshot_count += 1
NextScreenshotCount(c) == c + 1

\* the page left where the jiggle put it
RepositionTargetJiggled(cs, y) == y

\* window.scrollTo(0, {current_scroll}) after the jiggle
RepositionTarget(cs, y) == cs

ReconIdle ==
    /\ rpc = "idle"
    /\ existing_properties = <<>>
    /\ current_properties = <<>>
    /\ ai_response = <<>>
    /\ respShape = [kind |-> "none", prefix |-> <<>>, list |-> <<>>, suffix |-> <<>>]
    /\ cmp_calls = 0
    /\ vision_calls = 0
    /\ cmpFailed = FALSE
    /\ visionFailed = FALSE
    /\ parseKind = "none"
    /\ new_properties = <<>>
    /\ updateResult = [kind |-> "none", value |-> <<>>]

CloseIdle ==
    /\ lpc = "idle"
    /\ playwrightRunning = FALSE
    /\ browserOpen = FALSE
    /\ contextOpen = FALSE
    /\ pageOpen = FALSE
    /\ lpFailedAt = "none"
    /\ links = <<>>
    /\ link_dict = <<>>
    /\ top_urls = <<>>
    /\ lpResult = "none"

SessIdle ==
    /\ sessHost = <<>>
    /\ sessNumber = <<>>
    /\ sessCount = <<>>
    /\ written = {}

DirIdle ==
    /\ dpc = "idle"
    /\ ctimeKind = "none"
    /\ clock = 0
    /\ ctime = <<>>
    /\ scanLen = 0
    /\ scanPos = 0
    /\ scansDone = 0
    /\ listing = <<>>

OrchIdle ==
    /\ opc = "idle"
    /\ orch = "none"
    /\ nProps = 0
    /\ idx = 0
    /\ attempted = <<>>
    /\ outcomes = <<>>
    /\ all_properties_data = <<>>
    /\ firebase_uploads = 0
    /\ outerRaised = FALSE

OpsIdle ==
    /\ suspended = FALSE
    /\ inflight = 0
    /\ opIndex = 0
    /\ opLog = <<>>
    /\ animating = FALSE

SendIdle ==
    /\ spc = "idle"
    /\ run = 0
    /\ sendIdx = 0
    /\ analyzerHost = <<>>
    /\ pageHost = <<>>
    /\ disk = {}
    /\ captured = {}
    /\ sent = {}
    /\ sendRaised = FALSE

StoreIdle ==
    /\ stpc = "idle"
    /\ properties = <<>>
    /\ search = <<>>
    /\ storeFails = "none"
    /\ storeResult = [kind |-> "none", value |-> <<>>]
    /\ callerReports = "none"

AnalyzeIdle ==
    /\ apc = "idle"
    /\ image_paths = 0
    /\ content = <<>>
    /\ contentIsNone = FALSE
    /\ oracleNames = <<>>
    /\ wellFormed = FALSE
    /\ oracle_calls = 0
    /\ oracleFailed = FALSE
    /\ analyzeResult = [kind |-> "none", value |-> <<>>]
    /\ exampleResult = [kind |-> "none", value |-> <<>>]

Init ==
    /\ viewport_height \in 1..MaxV
    /\ docHeight \in 0..MaxH
    /\ changes = 0
    /\ scrollY = 0
    /\ pc = "start"
    /\ page_height = 0
    /\ current_scroll = 0
    /\ screenshot_count = 0
    /\ scroll_step = 0
    /\ screenshot_paths = <<>>
    /\ offsets = <<>>
    /\ lastMeasured = -1
    /\ maxMeasured = -1
    /\ driverFailed = FALSE
    /\ scanResult = [kind |-> "none", paths |-> <<>>]
    /\ agentOutcome = "running"
    /\ status = "none"
    /\ AnalyzeIdle
    /\ ReconIdle
    /\ CloseIdle
    /\ SessIdle
    /\ DirIdle
    /\ OrchIdle
    /\ OpsIdle
    /\ SendIdle
    /\ StoreIdle

pageVars == <<viewport_height, docHeight, changes>>
histVars == <<offsets, lastMeasured, maxMeasured>>
callerVars == <<driverFailed, scanResult, agentOutcome, status>>
localVars == <<page_height, current_scroll, screenshot_count, scroll_step, screenshot_paths>>

\* lines 52-59: current page, window.location.href, create_directory, 7 s wait
Loading ==
    /\ pc = "start"
    /\ pc' = "measuring"
    /\ UNCHANGED <<pageVars, scrollY, localVars, histVars, callerVars, nonScanVars>>

\* lines 62-68: first measurement and the locals of the loop
MeasureInitial ==
    /\ pc = "measuring"
    /\ page_height' = docHeight
    /\ current_scroll' = 0
    /\ screenshot_count' = 0
    /\ scroll_step' = ScrollStep(viewport_height)
    /\ lastMeasured' = docHeight
    /\ maxMeasured' = docHeight
    /\ pc' = "loop"
    /\ UNCHANGED <<pageVars, scrollY, screenshot_paths, offsets, callerVars, nonScanVars>>

\* line 70: while current_scroll < page_height
LoopTest ==
    /\ pc = "loop"
    /\ pc' = IF current_scroll < page_height THEN "positioning" ELSE "finishing"
    /\ UNCHANGED <<pageVars, scrollY, localVars, histVars, callerVars, nonScanVars>>

\* lines 72-82: smooth scrollTo(current_scroll), 3 s wait
Positioning ==
    /\ pc = "positioning"
    /\ scrollY' = current_scroll
    /\ pc' = "jiggle"
    /\ UNCHANGED <<pageVars, localVars, histVars, callerVars, nonScanVars>>

\* lines 85-86: window.scrollBy(0, 150), 2 s wait
Jiggle ==
    /\ pc = "jiggle"
    /\ scrollY' = scrollY + JiggleDelta
    /\ pc' = "reposition"
    /\ UNCHANGED <<pageVars, localVars, histVars, callerVars, nonScanVars>>

\* lines 89-90: window.scrollTo(0, current_scroll), 1 s wait
Reposition ==
    /\ pc = "reposition"
    /\ scrollY' = RepositionTarget(current_scroll, scrollY)
    /\ pc' = "capturing"
    /\ UNCHANGED <<pageVars, localVars, histVars, callerVars, nonScanVars>>

\* lines 93-99: screenshot_<count>.png, append, advance offset and count
Capturing ==
    /\ pc = "capturing"
    /\ screenshot_count < MaxShots
    /\ screenshot_paths' = Append(screenshot_paths, screenshot_count)
    /\ offsets' = Append(offsets, scrollY)
    /\ current_scroll' = current_scroll + scroll_step
    /\ screenshot_count' = NextScreenshotCount(screenshot_count)
    /\ pc' = "remeasuring"
    /\ UNCHANGED <<pageVars, scrollY, page_height, scroll_step, lastMeasured,
                   maxMeasured, callerVars, nonScanVars>>

\* lines 102-104: re-read scrollHeight, keep it when it grew
Remeasuring ==
    /\ pc = "remeasuring"
    /\ page_height' = UpdatedPageHeight(page_height, docHeight)
    /\ lastMeasured' = docHeight
    /\ maxMeasured' = IF docHeight > maxMeasured THEN docHeight ELSE maxMeasured
    /\ pc' = "loop"
    /\ UNCHANGED <<pageVars, scrollY, current_scroll, screenshot_count, scroll_step,
                   screenshot_paths, offsets, callerVars, nonScanVars>>

\* lines 107-108: scrollTo(0, page_height), 3 s wait
FinalScroll ==
    /\ pc = "finishing"
    /\ scrollY' = FinalScrollTarget(page_height, current_scroll)
    /\ pc' = "finalCapture"
    /\ UNCHANGED <<pageVars, localVars, histVars, callerVars, nonScanVars>>

\* lines 109-111: the final screenshot_<count>.png
FinalCapture ==
    /\ pc = "finalCapture"
    /\ screenshot_paths' = Append(screenshot_paths, screenshot_count)
    /\ offsets' = Append(offsets, scrollY)
    /\ pc' = "scrollTop"
    /\ UNCHANGED <<pageVars, scrollY, page_height, current_scroll, screenshot_count,
                   scroll_step, lastMeasured, maxMeasured, callerVars, nonScanVars>>

\* lines 114-125: smooth scroll to the top, 2 s wait, return the dict
ScrollTopAndReturn ==
    /\ pc = "scrollTop"
    /\ scrollY' = 0
    /\ scanResult' = [kind |-> "returned", paths |-> screenshot_paths]
    /\ pc' = "done"
    /\ UNCHANGED <<pageVars, localVars, histVars, driverFailed, agentOutcome,
                   status, nonScanVars>>

DriverPoints == {"start", "measuring", "positioning", "jiggle", "reposition",
                 "capturing", "remeasuring", "finishing", "finalCapture", "scrollTop"}

\* what reaches the caller when an awaited page operation raises: the function
\* has no try/except, the exception leaves it
OnDriverError(paths) == [kind |-> "raised", paths |-> <<>>]

\* any awaited page operation (lines 52-120) raises
DriverFails ==
    /\ pc \in DriverPoints
    /\ driverFailed' = TRUE
    /\ scanResult' = OnDriverError(screenshot_paths)
    /\ pc' = "aborted"
    /\ UNCHANGED <<pageVars, scrollY, localVars, histVars, agentOutcome, status,
                   nonScanVars>>

\* the page loads or drops content while the scanner is suspended in an await
PageChanges ==
    /\ pc \in DriverPoints \cup {"loop"}
    /\ changes < MaxChanges
    /\ \E h \in 0..MaxH :
          /\ h # docHeight
          /\ docHeight' = h
    /\ changes' = changes + 1
    /\ UNCHANGED <<viewport_height, scrollY, pc, localVars, histVars, callerVars,
                   nonScanVars>>

(***************************************************************************)
(* process_property_listing                                                *)
(***************************************************************************)

\* the history.has_errors() test left out
StatusOfIgnoringHistory(outcome) ==
    IF outcome = "run_raised" THEN "error" ELSE "success"

\* lines 65-88: the status of the returned dict
StatusOf(outcome) ==
    IF outcome = "run_raised" THEN "error"
    ELSE IF outcome = "has_errors" THEN "error"
    ELSE "success"

\* how agent.run(max_steps=30) can end once the action take_screenshots has
\* run: an exception of the action is either kept in the history
\* (history.has_errors()) or leaves agent.run; a clean history needs an
\* action that returned its ActionResult
AgentOutcomes(result) ==
    IF result.kind = "raised" THEN {"has_errors", "run_raised"}
    ELSE {"clean", "has_errors", "run_raised"}

\* line 63: agent.run returns or raises
AgentRunEnds ==
    /\ pc \in {"done", "aborted"}
    /\ agentOutcome = "running"
    /\ \E o \in AgentOutcomes(scanResult) : agentOutcome' = o
    /\ UNCHANGED <<pageVars, scrollY, pc, localVars, histVars, driverFailed,
                   scanResult, status, nonScanVars>>

\* line 63: the agent finishes (it reports done, or uses up max_steps)
\* without having used the 'Take property screenshots' action
AgentEndsWithoutAction ==
    /\ pc = "start"
    /\ agentOutcome = "running"
    /\ pc' = "notInvoked"
    /\ \E o \in AgentOutcomes(scanResult) : agentOutcome' = o
    /\ UNCHANGED <<pageVars, scrollY, localVars, histVars, driverFailed,
                   scanResult, status, nonScanVars>>

\* lines 65-88: process_property_listing returns its dict
ProcessReturns ==
    /\ agentOutcome # "running"
    /\ status = "none"
    /\ status' = StatusOf(agentOutcome)
    /\ UNCHANGED <<pageVars, scrollY, pc, localVars, histVars, driverFailed,
                   scanResult, agentOutcome, nonScanVars>>

ScanStep ==
    \/ Loading
    \/ MeasureInitial
    \/ LoopTest
    \/ Positioning
    \/ Jiggle
    \/ Reposition
    \/ Capturing
    \/ Remeasuring
    \/ FinalScroll
    \/ FinalCapture
    \/ ScrollTopAndReturn

Next ==
    \/ Loading
    \/ MeasureInitial
    \/ LoopTest
    \/ Positioning
    \/ Jiggle
    \/ Reposition
    \/ Capturing
    \/ Remeasuring
    \/ FinalScroll
    \/ FinalCapture
    \/ ScrollTopAndReturn
    \/ DriverFails
    \/ PageChanges
    \/ AgentRunEnds
    \/ AgentEndsWithoutAction
    \/ ProcessReturns

Spec == Init /\ [][Next]_vars

\* the scan when no page-driver operation raises
ScanNext ==
    \/ ScanStep
    \/ PageChanges

\* every await of the scan completes and the coroutine is resumed
LiveSpec == Init /\ [][ScanNext]_vars /\ WF_vars(ScanStep)

(***************************************************************************)
(* Properties of capture_property_screenshots                              *)
(***************************************************************************)

\* C1: in a completed scan the capture offsets start at 0, end at the
\* document height the scanner holds (the page's own height when the page
\* never changed), and two consecutive offsets, the final bottom capture
\* included, are at most one viewport height apart.
C1_OffsetsCoverDocument ==
    pc = "done" =>
        /\ offsets[1] = 0
        /\ Last(offsets) = page_height
        /\ (changes = 0 => Last(offsets) = docHeight)
        /\ \A i \in 1..(Len(offsets) - 1) :
              /\ offsets[i + 1] >= offsets[i]
              /\ offsets[i + 1] - offsets[i] <= viewport_height

\* a completed scan with stepped captures, a grown page and a bottom capture
\* below the last stepped one
C1_Witness ==
    /\ pc = "done"
    /\ Len(offsets) >= 3
    /\ changes > 0
    /\ Last(offsets) > offsets[Len(offsets) - 1]

\* C2 (as stated): in a completed scan the final capture is taken at the
\* height most recently read from the page, whether the page grew or shrank.
C2_FinalAtLastMeasured ==
    pc = "done" => Last(offsets) = lastMeasured

\* C2 (amended): in a completed scan the final capture is taken at the
\* largest height read from the page during the scan, not at the last
\* stepped offset.
C2_FinalAtLargestMeasured ==
    pc = "done" => Last(offsets) = maxMeasured

\* a completed scan whose last remeasurement read less than an earlier one
\* and whose stepped offset overshot the bottom
C2_Witness ==
    /\ pc = "done"
    /\ lastMeasured < maxMeasured
    /\ current_scroll > Last(offsets)

\* C3: the scan is never Done while the page extends beyond the last
\* captured offset plus the viewport height.
C3_NoHeightBelowLastCapture ==
    pc = "done" => docHeight <= Last(offsets) + viewport_height

\* C4: the indices of the screenshot file names, in capture order, are
\* 0, 1, ..., n-1 at every point of the scan.
C4_IndicesContiguous ==
    \A i \in 1..Len(screenshot_paths) : screenshot_paths[i] = i - 1

\* a completed scan of several stepped captures and the bottom capture
C4_Witness ==
    /\ pc = "done"
    /\ Len(screenshot_paths) >= 3
    /\ Len(scanResult.paths) = Len(screenshot_paths)

\* C5 (as stated): for every viewport height V > 0 and a page that changes
\* its height finitely often, the scan reaches Done, every loop iteration
\* advancing the target offset by a strictly positive step.
C5_ScanReachesDone ==
    /\ <>(pc = "done")
    /\ [][(pc = "capturing" /\ pc' = "remeasuring")
            => current_scroll' > current_scroll]_vars

\* C5 (amended): for every viewport height V >= 2, where the step
\* floor(0.8 V) is at least 1, every loop iteration advances the target
\* offset and the scan reaches Done.
C5_PositiveStepReachesDone ==
    /\ (viewport_height >= 2) => <>(pc = "done")
    /\ [][(viewport_height >= 2 /\ pc = "capturing" /\ pc' = "remeasuring")
            => current_scroll' > current_scroll]_vars

\* a scan that went round the loop at least twice, saw the page change as
\* often as it may and reached Done
C5_Witness ==
    /\ pc = "done"
    /\ viewport_height >= 2
    /\ screenshot_count >= 2
    /\ changes = MaxChanges

\* C6: once a page-driver operation has failed, the scan has raised, no
\* artifact list was returned, and process_property_listing does not
\* report success.
C6_DriverFailureSurfaces ==
    driverFailed =>
        /\ scanResult.kind = "raised"
        /\ scanResult.paths = <<>>
        /\ pc = "aborted"
        /\ status # "success"

\* a driver failure after some screenshots were taken, reported by
\* process_property_listing
C6_Witness ==
    /\ driverFailed
    /\ Len(screenshot_paths) >= 1
    /\ status = "error"

\* C24: every loop iteration advances the target offset by exactly
\* floor(0.8 V), the step never changes after it was computed, and two
\* consecutive stepped captures overlap by at least 20% of the viewport
\* (V - step >= 0.2 V), for the viewports of the scans and for every
\* viewport height up to MaxViewportChecked.
C24_StepIsFourFifthsOfViewport ==
    /\ [][(pc = "capturing" /\ pc' = "remeasuring") =>
            /\ current_scroll' - current_scroll = scroll_step
            /\ 10 * (current_scroll' - current_scroll) <= 8 * viewport_height
            /\ 8 * viewport_height < 10 * (current_scroll' - current_scroll) + 10
            /\ 10 * (viewport_height - (current_scroll' - current_scroll))
                  >= 2 * viewport_height]_vars
    /\ [][pc # "measuring" => scroll_step' = scroll_step]_vars
    /\ [](\A i \in 1..(Len(offsets) - 1) :
             (pc # "done" \/ i + 1 < Len(offsets)) =>
                 10 * (viewport_height - (offsets[i + 1] - offsets[i]))
                     >= 2 * viewport_height)
    /\ \A v \in 1..MaxViewportChecked :
          /\ 10 * ScrollStep(v) <= 8 * v
          /\ 8 * v < 10 * ScrollStep(v) + 10
          /\ 10 * (v - ScrollStep(v)) >= 2 * v

\* a completed scan with three stepped captures, two viewport-fifths apart
C24_Witness ==
    /\ pc = "done"
    /\ viewport_height = 3
    /\ Len(offsets) >= 4
    /\ offsets[2] - offsets[1] = 2
    /\ offsets[3] - offsets[2] = 2

\* C25: the page height the loop tests against never decreases; once a
\* height has been measured it is the largest of all heights measured so
\* far, so at every termination check it is at least the height read last.
C25_PageHeightIsRunningMaximum ==
    /\ [][page_height' >= page_height]_vars
    /\ [](lastMeasured # -1 => page_height = maxMeasured)
    /\ [](pc = "loop" => page_height >= lastMeasured)
    /\ [][(pc = "remeasuring" /\ pc' = "loop" /\ docHeight > page_height)
            => page_height' = docHeight]_vars

\* a termination check after the page shrank: the earlier, larger height is
\* still the one tested
C25_Witness ==
    /\ pc = "loop"
    /\ changes > 0
    /\ Len(offsets) >= 2
    /\ lastMeasured < page_height

\* where the page really is after a scroll to t: a page of height h shown
\* in a viewport of height v cannot scroll beyond h - v
EffectivePosition(t, h, v) ==
    IF t < (IF h - v > 0 THEN h - v ELSE 0) THEN t
    ELSE (IF h - v > 0 THEN h - v ELSE 0)

\* C26: in a completed scan of a page that kept its height, no two
\* screenshots, the final bottom capture included, were taken at the same
\* effective scroll position.
C26_NoTwoCapturesAtSamePosition ==
    (pc = "done" /\ changes = 0) =>
        \A i \in 1..Len(offsets) : \A j \in 1..Len(offsets) :
            i < j =>
                EffectivePosition(offsets[i], docHeight, viewport_height)
                    # EffectivePosition(offsets[j], docHeight, viewport_height)

\* C28: process_property_listing reports "success" only when the scan of
\* that call ran to completion, and reports "error" whenever it has
\* returned and no scan completed.
C28_SuccessOnlyAfterCompletedScan ==
    /\ status = "success" => (pc = "done" /\ scanResult.kind = "returned")
    /\ (status # "none" /\ scanResult.kind # "returned") => status = "error"

(***************************************************************************)
(* analyze_real_estate_images: text of the oracle response                 *)
(***************************************************************************)

\* characters str.strip() removes
Whitespace == {" ", "\n", "\t"}

\* characters of an arbitrary response
Alphabet == {"-", " ", "a", "\n"}

\* characters of a listing name (one line, so no line break)
NameChars == {"-", " ", "a"}

Strings(chars, n) == UNION {[1..k -> chars] : k \in 0..n}

RECURSIVE LStrip(_)
LStrip(s) == IF s # <<>> /\ Head(s) \in Whitespace THEN LStrip(Tail(s)) ELSE s

RECURSIVE RStrip(_)
RStrip(s) ==
    IF s # <<>> /\ s[Len(s)] \in Whitespace THEN RStrip(SubSeq(s, 1, Len(s) - 1)) ELSE s

\* str.strip()
Strip(s) == RStrip(LStrip(s))

\* s[n:]
From(s, n) == SubSeq(s, n + 1, Len(s))

\* str.startswith(p)
StartsWith(s, p) == Len(s) >= Len(p) /\ SubSeq(s, 1, Len(p)) = p

\* str.split('\n')
RECURSIVE SplitLines(_)
SplitLines(s) ==
    IF \E i \in 1..Len(s) : s[i] = "\n"
    THEN LET i == CHOOSE j \in 1..Len(s) :
                     s[j] = "\n" /\ \A k \in 1..(j - 1) : s[k] # "\n"
         IN <<SubSeq(s, 1, i - 1)>> \o SplitLines(From(s, i))
    ELSE <<s>>

\* if line.strip().startswith('-')
KeepLine(line) == StartsWith(Strip(line), <<"-">>)

\* line[3:].strip(): the prefix taken one character too long
EntryOfSkipsThree(line) == Strip(From(line, 3))

\* line[2:].strip()
EntryOf(line) == Strip(From(line, 2))

\* the list comprehension of lines 170-174
RECURSIVE PropertyList(_)
PropertyList(lines) ==
    IF lines = <<>> THEN <<>>
    ELSE (IF KeepLine(Head(lines)) THEN <<EntryOf(Head(lines))>> ELSE <<>>)
         \o PropertyList(Tail(lines))

\* lines 169-174: raw_response = content.strip(), split, filter, slice
ParseResponse(raw) == PropertyList(SplitLines(Strip(raw)))

\* two names that differ only in their parenthetical
ExampleNames == { <<"b", " ", "(", "1", ")">>, <<"b", " ", "(", "2", ")">> }

\* listing names without leading or trailing whitespace
Names ==
    {n \in Strings(NameChars, MaxNameLen) :
        n = <<>> \/ (Head(n) \notin Whitespace /\ n[Len(n)] \notin Whitespace)}
    \cup ExampleNames

NameSeqs == UNION {[1..k -> Names] : k \in 0..MaxNames}

\* the response the prompt asks for: "- n1", ..., "- nk" joined by line breaks
RECURSIVE Render(_)
Render(ns) ==
    IF ns = <<>> THEN <<>>
    ELSE <<"-", " ">> \o Head(ns)
         \o (IF Len(ns) > 1 THEN <<"\n">> \o Render(Tail(ns)) ELSE <<>>)

(***************************************************************************)
(* analyze_real_estate_images and run_example: control flow                *)
(***************************************************************************)

ScanIdle ==
    /\ viewport_height = 1
    /\ docHeight = 0
    /\ changes = 0
    /\ scrollY = 0
    /\ pc = "idle"
    /\ page_height = 0
    /\ current_scroll = 0
    /\ screenshot_count = 0
    /\ scroll_step = 0
    /\ screenshot_paths = <<>>
    /\ offsets = <<>>
    /\ lastMeasured = -1
    /\ maxMeasured = -1
    /\ driverFailed = FALSE
    /\ scanResult = [kind |-> "none", paths |-> <<>>]
    /\ agentOutcome = "running"
    /\ status = "none"

\* run_example has called analyze_real_estate_images(folder_path)
AnalyzeInit ==
    /\ ScanIdle
    /\ ReconIdle
    /\ CloseIdle
    /\ SessIdle
    /\ DirIdle
    /\ OrchIdle
    /\ OpsIdle
    /\ SendIdle
    /\ StoreIdle
    /\ apc = "start"
    /\ image_paths \in 0..1
    /\ content = <<>>
    /\ contentIsNone = FALSE
    /\ oracleNames = <<>>
    /\ wellFormed = FALSE
    /\ oracle_calls = 0
    /\ oracleFailed = FALSE
    /\ analyzeResult = [kind |-> "none", value |-> <<>>]
    /\ exampleResult = [kind |-> "none", value |-> <<>>]

\* lines 53-56: get_image_paths; ValueError when the folder holds no image
GetImagePaths ==
    /\ apc = "start"
    /\ IF image_paths = 0
       THEN /\ analyzeResult' = [kind |-> "raised", value |-> <<>>]
            /\ apc' = "finished"
       ELSE /\ apc' = "request"
            /\ UNCHANGED analyzeResult
    /\ UNCHANGED <<nonAnalyzeVars, image_paths, content, contentIsNone, oracleNames,
                   wellFormed, oracle_calls, oracleFailed, exampleResult>>

\* lines 121-155: client.chat.completions.create returns a response
OracleResponds ==
    /\ apc = "request"
    /\ oracle_calls' = oracle_calls + 1
    /\ \/ \E ns \in NameSeqs :
             /\ content' = Render(ns)
             /\ oracleNames' = ns
             /\ wellFormed' = TRUE
             /\ contentIsNone' = FALSE
       \/ \E r \in Strings(Alphabet, MaxLen) :
             /\ content' = r
             /\ oracleNames' = <<>>
             /\ wellFormed' = FALSE
             /\ contentIsNone' = FALSE
       \/ /\ content' = <<>>
          /\ oracleNames' = <<>>
          /\ wellFormed' = FALSE
          /\ contentIsNone' = TRUE
    /\ apc' = "parse"
    /\ UNCHANGED <<nonAnalyzeVars, image_paths, oracleFailed, analyzeResult, exampleResult>>

\* lines 121-155: client.chat.completions.create raises
OracleFails ==
    /\ apc = "request"
    /\ oracle_calls' = oracle_calls + 1
    /\ oracleFailed' = TRUE
    /\ apc' = "except"
    /\ UNCHANGED <<nonAnalyzeVars, image_paths, content, contentIsNone, oracleNames,
                   wellFormed, analyzeResult, exampleResult>>

\* lines 169-176: parse and return; None.strip() raises into the handlers
ParseAndReturn ==
    /\ apc = "parse"
    /\ IF contentIsNone
       THEN /\ apc' = "except"
            /\ UNCHANGED analyzeResult
       ELSE /\ analyzeResult' = [kind |-> "returned", value |-> ParseResponse(content)]
            /\ apc' = "finished"
    /\ UNCHANGED <<nonAnalyzeVars, image_paths, content, contentIsNone, oracleNames,
                   wellFormed, oracle_calls, oracleFailed, exampleResult>>

\* a handler that ends in `return []` instead of `raise`
PropagateErrorSwallowed ==
    /\ apc = "except"
    /\ analyzeResult' = [kind |-> "returned", value |-> <<>>]
    /\ apc' = "finished"
    /\ UNCHANGED <<nonAnalyzeVars, image_paths, content, contentIsNone, oracleNames,
                   wellFormed, oracle_calls, oracleFailed, exampleResult>>

\* lines 178-191: both handlers print and re-raise
PropagateError ==
    /\ apc = "except"
    /\ analyzeResult' = [kind |-> "raised", value |-> <<>>]
    /\ apc' = "finished"
    /\ UNCHANGED <<nonAnalyzeVars, image_paths, content, contentIsNone, oracleNames,
                   wellFormed, oracle_calls, oracleFailed, exampleResult>>

\* lines 202-216: what run_example returns for an outcome of the analysis
ExampleReturn(result) ==
    IF result.kind = "raised" THEN [kind |-> "returned", value |-> <<>>]
    ELSE IF result.value # <<>> THEN [kind |-> "returned", value |-> result.value]
    ELSE [kind |-> "returned", value |-> <<>>]

\* lines 202-216: run_example returns
RunExampleReturns ==
    /\ apc = "finished"
    /\ exampleResult' = ExampleReturn(analyzeResult)
    /\ apc' = "exampleDone"
    /\ UNCHANGED <<nonAnalyzeVars, image_paths, content, contentIsNone, oracleNames,
                   wellFormed, oracle_calls, oracleFailed, analyzeResult>>

AnalyzeNext ==
    \/ GetImagePaths
    \/ OracleResponds
    \/ OracleFails
    \/ ParseAndReturn
    \/ PropagateError
    \/ RunExampleReturns

AnalyzeSpec == AnalyzeInit /\ [][AnalyzeNext]_vars

(***************************************************************************)
(* Properties of analyze_real_estate_images and run_example                *)
(***************************************************************************)

\* C7: when the response is the lines "- n1", ..., "- nk" for names without
\* leading or trailing whitespace, the returned list is exactly n1, ..., nk
\* in that order, names differing only in their parenthetical kept apart.
C7_WellFormedResponseRoundTrip ==
    (wellFormed /\ analyzeResult.kind = "returned")
        => analyzeResult.value = oracleNames

\* the response listed the two names "b (1)" and "b (2)" and both came back
C7_Witness ==
    /\ wellFormed
    /\ analyzeResult.kind = "returned"
    /\ Len(analyzeResult.value) = 2
    /\ analyzeResult.value[1] \in ExampleNames
    /\ analyzeResult.value[2] \in ExampleNames
    /\ analyzeResult.value[1] # analyzeResult.value[2]

\* the line filter as the claim has it: the trimmed line starts with "- "
ClaimedKeep(line) == StartsWith(Strip(line), <<"-", " ">>)

\* the entry as the claim has it: the trimmed line without that prefix, trimmed
ClaimedEntry(line) == Strip(From(Strip(line), 2))

RECURSIVE ClaimedList(_)
ClaimedList(lines) ==
    IF lines = <<>> THEN <<>>
    ELSE (IF ClaimedKeep(Head(lines)) THEN <<ClaimedEntry(Head(lines))>> ELSE <<>>)
         \o ClaimedList(Tail(lines))

\* some line of the text is, trimmed, a lone hyphen: the prefix "- " of an
\* empty name, whose space the trimming removes
LoneHyphenLine(text) ==
    \E i \in 1..Len(SplitLines(text)) : Strip(SplitLines(text)[i]) = <<"-">>

\* C8: a line of the response is kept if and only if, trimmed, it starts
\* with "- "; each kept entry is the trimmed line without that prefix and
\* without surrounding whitespace, also when whitespace precedes the hyphen.
\* (Stated for responses without a lone-hyphen line, where the two readings
\* of "after trimming" agree.)
C8_KeepsExactlyPrefixedLines ==
    (analyzeResult.kind = "returned" /\ ~LoneHyphenLine(content))
        => analyzeResult.value = ClaimedList(SplitLines(content))

\* no line of the text starts, trimmed, with a hyphen
NoHyphenLine(text) ==
    \A i \in 1..Len(SplitLines(text)) :
        ~StartsWith(Strip(SplitLines(text)[i]), <<"-">>)

\* the outcome "an empty list was returned"
EmptyListing == [kind |-> "returned", value |-> <<>>]

\* C9: a successful oracle call whose response has no qualifying line makes
\* analyze_real_estate_images return the empty list, and a failed oracle
\* call never shows to a caller as that empty-list outcome, neither from
\* analyze_real_estate_images nor from run_example.
C9_EmptyIsNotFailure ==
    /\ (/\ analyzeResult.kind # "none"
        /\ oracle_calls = 1
        /\ ~oracleFailed
        /\ ~contentIsNone
        /\ NoHyphenLine(content)) => analyzeResult = EmptyListing
    /\ (oracleFailed /\ analyzeResult.kind # "none") => analyzeResult # EmptyListing
    /\ (oracleFailed /\ exampleResult.kind # "none") => exampleResult # EmptyListing

\* C10: a failed oracle call leaves analyze_real_estate_images as an
\* exception, and no invocation issues more than one oracle request.
C10_FailurePropagatesWithoutRetry ==
    /\ oracle_calls <= 1
    /\ (oracleFailed /\ apc \in {"finished", "exampleDone"})
          => analyzeResult.kind = "raised"

\* the one request failed and the failure has left analyze_real_estate_images
C10_Witness ==
    /\ oracleFailed
    /\ oracle_calls = 1
    /\ apc = "finished"
    /\ analyzeResult.kind = "raised"

(***************************************************************************)
(* check_property_updates: text of the comparison response                 *)
(***************************************************************************)

\* characters of an arbitrary comparison response
CmpAlphabet == {"[", "]", "\"", ",", "a", " "}

\* str.find(c): 0-based index of the first c, -1 when there is none
Find(s, c) ==
    IF \E i \in 1..Len(s) : s[i] = c
    THEN (CHOOSE i \in 1..Len(s) : s[i] = c /\ \A k \in 1..(i - 1) : s[k] # c) - 1
    ELSE -1

\* str.rfind(c): 0-based index of the last c, -1 when there is none
RFind(s, c) ==
    IF \E i \in 1..Len(s) : s[i] = c
    THEN (CHOOSE i \in 1..Len(s) : s[i] = c /\ \A k \in (i + 1)..Len(s) : s[k] # c) - 1
    ELSE -1

\* s[a:b] for 0 <= a and 0 <= b <= len(s)
Slice(s, a, b) == SubSeq(s, a + 1, b)

\* str.replace(pat, '')
RECURSIVE RemoveAll(_, _)
RemoveAll(s, pat) ==
    IF Len(s) < Len(pat) THEN s
    ELSE IF StartsWith(s, pat) THEN RemoveAll(From(s, Len(pat)), pat)
    ELSE <<Head(s)>> \o RemoveAll(Tail(s), pat)

\* the backquote character (a TLA+ string cannot hold it) is written "^"
Backquote == "^"

\* the markers of a code block
FencePython == <<Backquote, Backquote, Backquote, "p", "y", "t", "h", "o", "n">>
Fence == <<Backquote, Backquote, Backquote>>

\* lines 114 and 119: strip, drop the code block markers, strip
CleanResponse(raw) == Strip(RemoveAll(RemoveAll(Strip(raw), FencePython), Fence))

\* line 122: start_idx = ai_response.find('[')
StartIdx(r) == Find(r, "[")

\* ai_response.rfind(']') without the + 1: the closing bracket is cut off
EndIdxBeforeBracket(r) == RFind(r, "]")

\* line 123: end_idx = ai_response.rfind(']') + 1
EndIdx(r) == RFind(r, "]") + 1

\* line 124: if start_idx != -1 and end_idx > 0
HasList(r) == StartIdx(r) # -1 /\ EndIdx(r) > 0

\* line 125: list_str = ai_response[start_idx:end_idx]
ListStr(r) == Slice(r, StartIdx(r), EndIdx(r))

(***************************************************************************)
(* eval(list_str), line 126, for text over brackets, double quotes,        *)
(* commas, whitespace and other characters: a list display of string       *)
(* literals (adjacent literals concatenate, a trailing comma is allowed)   *)
(* evaluates to the list of its strings; a display with nested displays    *)
(* evaluates to a list that is not a list of strings; everything else      *)
(* (bare names, subscripts, unbalanced text) raises.                       *)
(***************************************************************************)

EvalFail == [ok |-> FALSE, pos |-> 0, val |-> <<>>, nested |-> FALSE]

RECURSIVE SkipWs(_, _)
SkipWs(t, i) == IF i <= Len(t) /\ t[i] \in Whitespace THEN SkipWs(t, i + 1) ELSE i

\* three double quotes at i: the delimiter of a triple-quoted literal
TripleAt(t, i) == i + 2 <= Len(t) /\ t[i] = "\"" /\ t[i + 1] = "\"" /\ t[i + 2] = "\""

\* the string literal opened by the quote at i: `last` is the position of its
\* final quote (0: unterminated), `val` its characters
StrLit(t, i) ==
    IF TripleAt(t, i)
    THEN IF \E j \in (i + 3)..Len(t) : TripleAt(t, j)
         THEN LET e == CHOOSE j \in (i + 3)..Len(t) :
                           TripleAt(t, j) /\ \A k \in (i + 3)..(j - 1) : ~TripleAt(t, k)
              IN [last |-> e + 2, val |-> SubSeq(t, i + 3, e - 1)]
         ELSE [last |-> 0, val |-> <<>>]
    ELSE IF \E j \in (i + 1)..Len(t) : t[j] = "\""
    THEN LET e == CHOOSE j \in (i + 1)..Len(t) :
                      t[j] = "\"" /\ \A k \in (i + 1)..(j - 1) : t[k] # "\""
         IN IF \E k \in (i + 1)..(e - 1) : t[k] = "\n"
            THEN [last |-> 0, val |-> <<>>]
            ELSE [last |-> e, val |-> SubSeq(t, i + 1, e - 1)]
    ELSE [last |-> 0, val |-> <<>>]

\* the literal lit followed by the adjacent literals r
JoinLiterals(lit, r) ==
    IF r.ok
    THEN [ok |-> TRUE, pos |-> r.pos, val |-> lit.val \o r.val, nested |-> FALSE]
    ELSE EvalFail

RECURSIVE ParseStrCat(_, _)

\* the literal lit has been read and k is the first position after it that
\* is not whitespace
StrCatFrom(t, lit, k) ==
    IF lit.last = 0 THEN EvalFail
    ELSE IF k <= Len(t) /\ t[k] = "\"" THEN JoinLiterals(lit, ParseStrCat(t, k))
    ELSE [ok |-> TRUE, pos |-> k, val |-> lit.val, nested |-> FALSE]

\* one or more adjacent string literals starting at i
ParseStrCat(t, i) == StrCatFrom(t, StrLit(t, i), SkipWs(t, StrLit(t, i).last + 1))

RECURSIVE ParseList(_, _)
RECURSIVE ParseElems(_, _)

\* a list display whose first position after the bracket and whitespace is k
ListFrom(t, k) ==
    IF k > Len(t) THEN EvalFail
    ELSE IF t[k] = "]" THEN [ok |-> TRUE, pos |-> k + 1, val |-> <<>>, nested |-> FALSE]
    ELSE ParseElems(t, k)

\* the list display opened by the bracket at i
ParseList(t, i) == ListFrom(t, SkipWs(t, i + 1))

\* the list display l read at k, as an element of the enclosing display
NestedElem(t, k, l) ==
    IF l.ok
    THEN [ok |-> TRUE, pos |-> SkipWs(t, l.pos), val |-> SubSeq(t, k, l.pos - 1),
          nested |-> TRUE]
    ELSE EvalFail

\* the element at k: string literals or a list display
ParseElem(t, k) ==
    IF t[k] = "\"" THEN ParseStrCat(t, k)
    ELSE IF t[k] = "[" THEN NestedElem(t, k, ParseList(t, k))
    ELSE EvalFail

\* the element el in front of the elements rest
ConsElem(el, rest) ==
    IF rest.ok
    THEN [ok |-> TRUE, pos |-> rest.pos, val |-> <<el.val>> \o rest.val,
          nested |-> el.nested \/ rest.nested]
    ELSE EvalFail

\* el and a comma have been read; q is the next position that is not whitespace
ElemsAfterComma(t, el, q) ==
    IF q > Len(t) THEN EvalFail
    ELSE IF t[q] = "]"
    THEN [ok |-> TRUE, pos |-> q + 1, val |-> <<el.val>>, nested |-> el.nested]
    ELSE ConsElem(el, ParseElems(t, q))

\* el has been read: the closing bracket or a comma must follow
ElemsAfter(t, el) ==
    IF ~el.ok \/ el.pos > Len(t) THEN EvalFail
    ELSE IF t[el.pos] = "]"
    THEN [ok |-> TRUE, pos |-> el.pos + 1, val |-> <<el.val>>, nested |-> el.nested]
    ELSE IF t[el.pos] = "," THEN ElemsAfterComma(t, el, SkipWs(t, el.pos + 1))
    ELSE EvalFail

\* the elements of a list display from k up to its closing bracket
ParseElems(t, k) == ElemsAfter(t, ParseElem(t, k))

\* outside brackets a line break ends the expression: only blanks are skipped
RECURSIVE SkipBlank(_, _)
SkipBlank(t, i) == IF i <= Len(t) /\ t[i] \in {" ", "\t"} THEN SkipBlank(t, i + 1) ELSE i

RECURSIVE IsTupleTail(_, _)
RECURSIVE IsTupleString(_, _)

\* the list display l was read as an element of a tuple: the text ends after
\* it or the tuple goes on
TupleAfterList(t, l) == l.ok /\ (l.pos = Len(t) + 1 \/ IsTupleTail(t, l.pos))

\* an element of a tuple at q: a list display or string literals
TupleElem(t, q) ==
    /\ q <= Len(t)
    /\ \/ (t[q] = "[" /\ TupleAfterList(t, ParseList(t, q)))
       \/ (t[q] = "\"" /\ IsTupleString(t, q))

\* a comma at c and an element of a tuple after it
TupleAfterComma(t, c) == c <= Len(t) /\ t[c] = "," /\ TupleElem(t, SkipBlank(t, c + 1))

\* the text from p on is ", e, ..., [..]": further elements of a tuple whose
\* elements are list displays and string literals
IsTupleTail(t, p) == TupleAfterComma(t, SkipBlank(t, p))

\* the literal lit was read in a tuple and n is the next position that is
\* not blank: an adjacent literal or more of the tuple
TupleAfterString(t, lit, n) ==
    /\ lit.last # 0
    /\ \/ (n <= Len(t) /\ t[n] = "\"" /\ IsTupleString(t, n))
       \/ IsTupleTail(t, lit.last + 1)

\* a string literal at q, adjacent literals after it, then more of the tuple
IsTupleString(t, q) ==
    TupleAfterString(t, StrLit(t, q), SkipBlank(t, StrLit(t, q).last + 1))

\* the value of the text whose leading list display parsed as r
EvalParsed(text, r) ==
    IF r.ok /\ r.pos = Len(text) + 1
    THEN [kind |-> IF r.nested THEN "other" ELSE "list", value |-> r.val]
    ELSE IF r.ok /\ IsTupleTail(text, r.pos)
    THEN [kind |-> "other", value |-> <<text>>]
    ELSE [kind |-> "raises", value |-> <<>>]

\* line 126: new_properties = eval(list_str)
EvalListLiteral(text) ==
    IF text = <<>> \/ text[1] # "[" THEN [kind |-> "raises", value |-> <<>>]
    ELSE EvalParsed(text, ParseList(text, 1))

\* lines 114-126: the parse of the comparison response
ParseComparison(raw) ==
    LET r == CleanResponse(raw) IN
    IF HasList(r) THEN EvalListLiteral(ListStr(r))
    ELSE [kind |-> "nolist", value |-> <<>>]

(***************************************************************************)
(* check_property_updates: control flow                                    *)
(***************************************************************************)

SeqsUpTo(S, n) == UNION {[1..k -> S] : k \in 0..n}

\* names get_properties_by_url returns
ExistingNames == { <<"a">>, <<"b">> }

\* names analyze_real_estate_images returns
CurrentNames == { <<"a">>, <<"a", " ", "(", "1", ")">> }

\* strings the comparison oracle may put in its list
ListStrings == CurrentNames \cup { <<"[">>, <<"]", "a">>,
                                   <<"a", Backquote, Backquote, Backquote>> }

\* prose before the list: it holds no '['
Prefixes == { <<>>, <<"a", ":", " ">>, <<"a", "]", " ">>,
              FencePython \o <<"\n">>, Fence }

\* prose after the list: it holds no ']'
Suffixes == { <<>>, <<" ", "a">>, <<"\n">> \o Fence, <<" ", "[">> }

\* "s1", "s2", ...
RECURSIVE RenderItems(_)
RenderItems(l) ==
    IF l = <<>> THEN <<>>
    ELSE <<"\"">> \o Head(l) \o <<"\"">>
         \o (IF Len(l) > 1 THEN <<",", " ">> \o RenderItems(Tail(l)) ELSE <<>>)

\* the bracketed list of double-quoted strings the prompt asks for
RenderList(l) == <<"[">> \o RenderItems(l) \o <<"]">>

NoShape == [kind |-> "none", prefix |-> <<>>, list |-> <<>>, suffix |-> <<>>]

EmptyReturn == [kind |-> "returned", value |-> <<>>]

\* check_property_updates was called; line 30 has read the stored names
ReconInit ==
    /\ ScanIdle
    /\ AnalyzeIdle
    /\ CloseIdle
    /\ SessIdle
    /\ DirIdle
    /\ OrchIdle
    /\ OpsIdle
    /\ SendIdle
    /\ StoreIdle
    /\ rpc = "listings"
    /\ existing_properties \in SeqsUpTo(ExistingNames, MaxExisting)
    /\ current_properties = <<>>
    /\ ai_response = <<>>
    /\ respShape = NoShape
    /\ cmp_calls = 0
    /\ vision_calls = 0
    /\ cmpFailed = FALSE
    /\ visionFailed = FALSE
    /\ parseKind = "none"
    /\ new_properties = <<>>
    /\ updateResult = [kind |-> "none", value |-> <<>>]

\* lines 41-56: listings_page found a page (screenshots taken or reused)
ListingsFound ==
    /\ rpc = "listings"
    /\ rpc' = "analyze"
    /\ UNCHANGED <<nonReconVars, existing_properties, current_properties, ai_response,
                   respShape, cmp_calls, vision_calls, cmpFailed, visionFailed,
                   parseKind, new_properties, updateResult>>

\* lines 41-43, 219-221: listings_page raised or found nothing
ListingsFails ==
    /\ rpc = "listings"
    /\ updateResult' = EmptyReturn
    /\ rpc' = "done"
    /\ UNCHANGED <<nonReconVars, existing_properties, current_properties, ai_response,
                   respShape, cmp_calls, vision_calls, cmpFailed, visionFailed,
                   parseKind, new_properties>>

\* line 62: analyze_real_estate_images returns the current names
AnalyzeCurrent ==
    /\ rpc = "analyze"
    /\ vision_calls' = vision_calls + 1
    /\ \E cur \in SeqsUpTo(CurrentNames, MaxCurrent) : current_properties' = cur
    /\ rpc' = "compare"
    /\ UNCHANGED <<nonReconVars, existing_properties, ai_response, respShape, cmp_calls,
                   cmpFailed, visionFailed, parseKind, new_properties, updateResult>>

\* lines 62, 219-221: analyze_real_estate_images raises
VisionFails ==
    /\ rpc = "analyze"
    /\ vision_calls' = vision_calls + 1
    /\ visionFailed' = TRUE
    /\ updateResult' = EmptyReturn
    /\ rpc' = "done"
    /\ UNCHANGED <<nonReconVars, existing_properties, current_properties, ai_response,
                   respShape, cmp_calls, cmpFailed, parseKind, new_properties>>

\* lines 79-110: the comparison oracle answers
CompareResponds ==
    /\ rpc = "compare"
    /\ cmp_calls' = cmp_calls + 1
    /\ \/ \E pre \in Prefixes, l \in SeqsUpTo(ListStrings, MaxListed), suf \in Suffixes :
             /\ ai_response' = pre \o RenderList(l) \o suf
             /\ respShape' = [kind |-> "structured", prefix |-> pre, list |-> l,
                              suffix |-> suf]
       \/ \E r \in Strings(CmpAlphabet, MaxCmpLen) :
             /\ ai_response' = r
             /\ respShape' = [kind |-> "free", prefix |-> <<>>, list |-> <<>>,
                              suffix |-> <<>>]
       \/ /\ ai_response' = <<>>
          /\ respShape' = [kind |-> "null", prefix |-> <<>>, list |-> <<>>,
                           suffix |-> <<>>]
    /\ rpc' = "parse"
    /\ UNCHANGED <<nonReconVars, existing_properties, current_properties, vision_calls,
                   cmpFailed, visionFailed, parseKind, new_properties, updateResult>>

\* lines 79-110, 219-221: the comparison request raises
CompareFails ==
    /\ rpc = "compare"
    /\ cmp_calls' = cmp_calls + 1
    /\ cmpFailed' = TRUE
    /\ updateResult' = EmptyReturn
    /\ rpc' = "done"
    /\ UNCHANGED <<nonReconVars, existing_properties, current_properties, ai_response,
                   respShape, vision_calls, visionFailed, parseKind, new_properties>>

\* lines 113-126 and the exits at 206-217: a response whose content is None
\* raises in the try, then in the handler's print, and leaves through the
\* outer handler; no list and a failing eval return []; an empty list is
\* returned at once; any other value goes to the per-property loop
ParseStep ==
    /\ rpc = "parse"
    /\ LET parsed == IF respShape.kind = "null"
                     THEN [kind |-> "raises", value |-> <<>>]
                     ELSE ParseComparison(ai_response)
       IN /\ parseKind' = parsed.kind
          /\ new_properties' = parsed.value
          /\ IF parsed.kind \in {"nolist", "raises"}
             THEN /\ updateResult' = EmptyReturn
                  /\ rpc' = "done"
             ELSE IF parsed.value = <<>>
             THEN /\ updateResult' = [kind |-> "returned", value |-> parsed.value]
                  /\ rpc' = "done"
             ELSE /\ rpc' = "process"
                  /\ UNCHANGED updateResult
    /\ UNCHANGED <<nonReconVars, existing_properties, current_properties, ai_response,
                   respShape, cmp_calls, vision_calls, cmpFailed, visionFailed>>

\* lines 132-208: the per-property loop ran to its end
ProcessCompletes ==
    /\ rpc = "process"
    /\ updateResult' = [kind |-> "returned", value |-> new_properties]
    /\ rpc' = "done"
    /\ UNCHANGED <<nonReconVars, existing_properties, current_properties, ai_response,
                   respShape, cmp_calls, vision_calls, cmpFailed, visionFailed,
                   parseKind, new_properties>>

\* lines 134-200, 214-217: a statement of the loop outside its inner try
\* raised (makedirs, process_property_listing without its API key, open)
ProcessRaises ==
    /\ rpc = "process"
    /\ updateResult' = EmptyReturn
    /\ rpc' = "done"
    /\ UNCHANGED <<nonReconVars, existing_properties, current_properties, ai_response,
                   respShape, cmp_calls, vision_calls, cmpFailed, visionFailed,
                   parseKind, new_properties>>

ReconNext ==
    \/ ListingsFound
    \/ ListingsFails
    \/ AnalyzeCurrent
    \/ VisionFails
    \/ CompareResponds
    \/ CompareFails
    \/ ParseStep
    \/ ProcessCompletes
    \/ ProcessRaises

ReconSpec == ReconInit /\ [][ReconNext]_vars

(***************************************************************************)
(* Properties of check_property_updates                                    *)
(***************************************************************************)

\* lower case of a character
Lower(c) == CASE c = "A" -> "a" [] c = "B" -> "b" [] c = "C" -> "c" [] OTHER -> c

\* the text before any parenthetical
BeforeParen(n) == IF Find(n, "(") = -1 THEN n ELSE Slice(n, 0, Find(n, "("))

\* base name of a listing: the text before any parenthetical, without
\* whitespace, in lower case
BaseKey(n) ==
    LET kept == SelectSeq(BeforeParen(n), LAMBDA c : c \notin Whitespace)
    IN [i \in 1..Len(kept) |-> Lower(kept[i])]

\* two identifiers name the same listing
SameListing(x, y) == BaseKey(x) = BaseKey(y)

\* the call went through the reconciliation step: the comparison response
\* was parsed as a list of strings and check_property_updates returned
Reconciled == rpc = "done" /\ parseKind = "list" /\ updateResult.kind = "returned"

\* C11: every entry of the list the reconciliation returns names the same
\* listing (by base name) as some entry of the current set.
C11_ResultWithinCurrent ==
    Reconciled =>
        \A i \in 1..Len(updateResult.value) :
            \E j \in 1..Len(current_properties) :
                SameListing(updateResult.value[i], current_properties[j])

\* C12: reconciling a listing set against itself returns the empty list,
\* whatever the comparison oracle answers.
C12_SelfReconcileEmpty ==
    (Reconciled /\ current_properties # <<>>
                /\ existing_properties = current_properties)
        => updateResult.value = <<>>

\* C13: reconciling against an empty existing set returns the current set,
\* every entry once and in its order.
C13_EmptyExistingYieldsCurrent ==
    (Reconciled /\ existing_properties = <<>>)
        => updateResult.value = current_properties

\* the entries of cur that share a base name with no entry of ex
NewByBaseName(ex, cur) ==
    SelectSeq(cur, LAMBDA c : \A j \in 1..Len(ex) : ~SameListing(c, ex[j]))

\* C14: an entry of the current set is in the result if and only if no
\* entry of the existing set has its base name.
C14_NewIffNoSharedBaseName ==
    (Reconciled /\ existing_properties # <<>>)
        => updateResult.value = NewByBaseName(existing_properties, current_properties)

\* C15: a response without a bracket pair or with bracketed text that is no
\* list of strings gives the caller an outcome other than the one of a
\* well-formed empty list, which is the returned value [].
C15_ParseFailureDistinct ==
    (rpc = "done" /\ respShape.kind \in {"free", "structured"}
                  /\ parseKind \in {"nolist", "raises"})
        => updateResult # EmptyReturn

\* C16 (as stated): for a response prefix + L + suffix, L a bracketed list
\* of double-quoted strings, no '[' in the prefix and no ']' in the suffix,
\* the parser yields exactly the strings of L in order.
C16_BracketedListParsed ==
    (respShape.kind = "structured" /\ parseKind # "none")
        => (parseKind = "list" /\ new_properties = respShape.list)

\* a string as it is left once the code block markers are deleted
WithoutFences(str) == RemoveAll(RemoveAll(str, FencePython), Fence)

\* C16 (amended): for such a response the parser yields the strings of L in
\* order, each without the code block markers it held (the markers are
\* deleted from the whole response before the brackets are located), hence
\* exactly L when no string of L holds a marker.
C16_BracketedListParsedWithoutFences ==
    (respShape.kind = "structured" /\ parseKind # "none")
        => /\ parseKind = "list"
           /\ new_properties =
                 [i \in 1..Len(respShape.list) |-> WithoutFences(respShape.list[i])]

\* prose on both sides, two strings, the first one a bracket, parsed as written
C16_Witness ==
    /\ respShape.kind = "structured"
    /\ parseKind = "list"
    /\ respShape.prefix # <<>>
    /\ respShape.suffix # <<>>
    /\ Len(respShape.list) = 2
    /\ respShape.list[1] = <<"[">>
    /\ new_properties = respShape.list

\* C17: a failed oracle call (comparison or vision) gives the caller an
\* outcome other than the one of a reconciliation with zero new listings,
\* and neither oracle is called twice in one invocation.
C17_OracleFailureSurfaces ==
    /\ cmp_calls <= 1
    /\ vision_calls <= 1
    /\ (rpc = "done" /\ (cmpFailed \/ visionFailed)) => updateResult # EmptyReturn

(***************************************************************************)
(* listings_page                                                           *)
(***************************************************************************)

\* link texts: an empty text, two different texts
LinkTexts == {"", "t", "u"}

\* words of the answer: a URL or something else
Words == {"url", "word"}

\* line 39: {link['text']: link['href'] for link in links if link['text']};
\* a later link with the same text replaces the earlier one
LinkDict(ls) ==
    [t \in {ls[i] : i \in {j \in 1..Len(ls) : ls[j] # ""}} |->
        CHOOSE i \in 1..Len(ls) : ls[i] = t /\ \A k \in (i + 1)..Len(ls) : ls[k] # t]

\* line 65: re.findall(r'https?://\S+', response_text)
FindUrls(ws) == SelectSeq(ws, LAMBDA w : w = "url")

\* a handle left as it was: the exit of the with block releases nothing
AfterDriverStopKept(open) == open

\* a handle after the exit of `async with async_playwright()` (line 21): the
\* exit stops the driver process, and with it every browser it launched,
\* every context and every page
AfterDriverStop(open) == FALSE

\* the steps inside the with block that can raise
RaisingSteps == {"launch", "new_context", "new_page", "goto", "extract",
                 "page_close", "context_close", "browser_close", "post", "parse"}

\* listings_page was called
CloseInit ==
    /\ ScanIdle
    /\ AnalyzeIdle
    /\ ReconIdle
    /\ SessIdle
    /\ DirIdle
    /\ OrchIdle
    /\ OpsIdle
    /\ SendIdle
    /\ StoreIdle
    /\ lpc = "start"
    /\ playwrightRunning = FALSE
    /\ browserOpen = FALSE
    /\ contextOpen = FALSE
    /\ pageOpen = FALSE
    /\ lpFailedAt = "none"
    /\ links = <<>>
    /\ link_dict = <<>>
    /\ top_urls = <<>>
    /\ lpResult = "none"

\* line 21: async with async_playwright() as playwright
EnterPlaywright ==
    /\ lpc = "start"
    /\ playwrightRunning' = TRUE
    /\ lpc' = "launch"
    /\ UNCHANGED <<nonCloseVars, browserOpen, contextOpen, pageOpen, lpFailedAt, links,
                   link_dict, top_urls, lpResult>>

\* line 23: browser = await playwright.chromium.launch()
LaunchBrowser ==
    /\ lpc = "launch"
    /\ browserOpen' = TRUE
    /\ lpc' = "new_context"
    /\ UNCHANGED <<nonCloseVars, playwrightRunning, contextOpen, pageOpen, lpFailedAt,
                   links, link_dict, top_urls, lpResult>>

\* line 26: context = await browser.new_context()
NewContext ==
    /\ lpc = "new_context"
    /\ contextOpen' = TRUE
    /\ lpc' = "new_page"
    /\ UNCHANGED <<nonCloseVars, playwrightRunning, browserOpen, pageOpen, lpFailedAt,
                   links, link_dict, top_urls, lpResult>>

\* line 27: page = await context.new_page()
NewPage ==
    /\ lpc = "new_page"
    /\ pageOpen' = TRUE
    /\ lpc' = "goto"
    /\ UNCHANGED <<nonCloseVars, playwrightRunning, browserOpen, contextOpen, lpFailedAt,
                   links, link_dict, top_urls, lpResult>>

\* line 30: await page.goto(url)
Goto ==
    /\ lpc = "goto"
    /\ lpc' = "extract"
    /\ UNCHANGED <<nonCloseVars, playwrightRunning, browserOpen, contextOpen, pageOpen,
                   lpFailedAt, links, link_dict, top_urls, lpResult>>

\* lines 33-39: links = await page.eval_on_selector_all(...), then link_dict
ExtractLinks ==
    /\ lpc = "extract"
    /\ \E ls \in SeqsUpTo(LinkTexts, MaxLinks) :
          /\ links' = ls
          /\ link_dict' = LinkDict(ls)
    /\ lpc' = "page_close"
    /\ UNCHANGED <<nonCloseVars, playwrightRunning, browserOpen, contextOpen, pageOpen,
                   lpFailedAt, top_urls, lpResult>>

\* line 42: await page.close()
ClosePage ==
    /\ lpc = "page_close"
    /\ pageOpen' = FALSE
    /\ lpc' = "context_close"
    /\ UNCHANGED <<nonCloseVars, playwrightRunning, browserOpen, contextOpen, lpFailedAt,
                   links, link_dict, top_urls, lpResult>>

\* line 43: await context.close()
CloseContext ==
    /\ lpc = "context_close"
    /\ contextOpen' = FALSE
    /\ pageOpen' = FALSE
    /\ lpc' = "browser_close"
    /\ UNCHANGED <<nonCloseVars, playwrightRunning, browserOpen, lpFailedAt, links,
                   link_dict, top_urls, lpResult>>

\* line 44: await browser.close()
CloseBrowser ==
    /\ lpc = "browser_close"
    /\ browserOpen' = FALSE
    /\ contextOpen' = FALSE
    /\ pageOpen' = FALSE
    /\ lpc' = "post"
    /\ UNCHANGED <<nonCloseVars, playwrightRunning, lpFailedAt, links, link_dict,
                   top_urls, lpResult>>

\* lines 47-61: the request to the ranking service and the decoding of its body
PostRequest ==
    /\ lpc = "post"
    /\ lpc' = "parse"
    /\ UNCHANGED <<nonCloseVars, playwrightRunning, browserOpen, contextOpen, pageOpen,
                   lpFailedAt, links, link_dict, top_urls, lpResult>>

\* lines 64-67: the URLs of the answer; return top_urls leaves the with block
ExtractUrls ==
    /\ lpc = "parse"
    /\ \E ws \in SeqsUpTo(Words, MaxWords) : top_urls' = FindUrls(ws)
    /\ lpc' = "leaving"
    /\ UNCHANGED <<nonCloseVars, playwrightRunning, browserOpen, contextOpen, pageOpen,
                   lpFailedAt, links, link_dict, lpResult>>

\* lines 23-64: the statement at lpc raises and control leaves the with
\* block; no later statement of the block runs
StepRaises ==
    /\ lpc \in RaisingSteps
    /\ lpFailedAt' = lpc
    /\ lpc' = "leaving"
    /\ UNCHANGED <<nonCloseVars, playwrightRunning, browserOpen, contextOpen, pageOpen,
                   links, link_dict, top_urls, lpResult>>

\* line 21: the exit of the with block, then the return or the exception
\* reaches the caller
PlaywrightExit ==
    /\ lpc = "leaving"
    /\ playwrightRunning' = FALSE
    /\ browserOpen' = AfterDriverStop(browserOpen)
    /\ contextOpen' = AfterDriverStop(contextOpen)
    /\ pageOpen' = AfterDriverStop(pageOpen)
    /\ lpResult' = IF lpFailedAt = "none" THEN "returned" ELSE "raised"
    /\ lpc' = "exited"
    /\ UNCHANGED <<nonCloseVars, lpFailedAt, links, link_dict, top_urls>>

CloseNext ==
    \/ EnterPlaywright
    \/ LaunchBrowser
    \/ NewContext
    \/ NewPage
    \/ Goto
    \/ ExtractLinks
    \/ ClosePage
    \/ CloseContext
    \/ CloseBrowser
    \/ PostRequest
    \/ ExtractUrls
    \/ StepRaises
    \/ PlaywrightExit

CloseSpec == CloseInit /\ [][CloseNext]_vars

Www == <<"w", "w", "w", ".">>

\* the network locations of the websites
Hosts == { <<"a", ".", "c">>,
           <<"a", ".", "o">>,
           Www \o <<"a", ".", "c">>,
           <<"b", ".", "c">>,
           <<"s", ".", "b", ".", "c">> }

Sessions == {1, 2}

\* s.split(sep)[0]
SplitFirst(str, sep) == IF Find(str, sep) = -1 THEN str ELSE Slice(str, 0, Find(str, sep))

\* line 18: urlparse(url).netloc.replace('www.', '').split('.')[0]
Domain(netloc) == SplitFirst(RemoveAll(netloc, Www), ".")

\* lines 25-34: Properties/<domain>/<number>
CreateDirectory(netloc, number) == <<"Properties", Domain(netloc), number>>

\* lines 93 and 109: <save_dir>/screenshot_<screenshot_count>.png
ScreenshotPath(save_dir, count) == [dir |-> save_dir, index |-> count]

\* two sessions were started on two different websites
SessInit ==
    /\ ScanIdle
    /\ AnalyzeIdle
    /\ ReconIdle
    /\ CloseIdle
    /\ DirIdle
    /\ OrchIdle
    /\ OpsIdle
    /\ SendIdle
    /\ StoreIdle
    /\ \E h1 \in Hosts : \E h2 \in Hosts \ {h1} : sessHost = <<h1, h2>>
    /\ sessNumber \in [Sessions -> 1..MaxNumber]
    /\ sessCount = [i \in Sessions |-> 0]
    /\ written = {}

\* lines 93-99 and 109-111 in session i: the screenshot is written under
\* the directory of the session and the index advances
SessionCaptures(i) ==
    /\ sessCount[i] < MaxSessShots
    /\ written' = written \cup
          {[path |-> ScreenshotPath(CreateDirectory(sessHost[i], sessNumber[i]),
                                    sessCount[i]),
            session |-> i]}
    /\ sessCount' = [sessCount EXCEPT ![i] = @ + 1]
    /\ UNCHANGED <<nonSessVars, sessHost, sessNumber>>

SessNext == \E i \in Sessions : SessionCaptures(i)

SessSpec == SessInit /\ [][SessNext]_vars

\* C19: a screenshot path written by one of two sessions on different
\* hosts is never written by the other, whatever the hosts and the property
\* numbers.
C19_SessionsWriteDisjointPaths ==
    \A w1 \in written, w2 \in written :
        w1.session # w2.session => w1.path # w2.path

(***************************************************************************)
(* One screenshot directory over several scans, and get_image_paths        *)
(***************************************************************************)

\* os.path.getctime: the time of the last change of the file's metadata
\* (Unix: a rewrite of the file moves it) or the time the file was created
\* (Windows: a rewrite of the file leaves it)
CtimeKinds == {"metadata_change", "creation"}

\* the timestamp of file i after a write at time now
CtimeAfterWrite(ct, i, now) ==
    IF i \in DOMAIN ct /\ ctimeKind = "creation" THEN ct[i] ELSE now

\* line 44: sorted(image_files, key=get_creation_time)
RECURSIVE SortedByCtime(_, _)
SortedByCtime(files, ct) ==
    IF files = {} THEN <<>>
    ELSE LET first == CHOOSE f \in files : \A g \in files : ct[f] <= ct[g]
         IN <<first>> \o SortedByCtime(files \ {first}, ct)

\* an empty directory
DirInit ==
    /\ ScanIdle
    /\ AnalyzeIdle
    /\ ReconIdle
    /\ CloseIdle
    /\ SessIdle
    /\ OrchIdle
    /\ OpsIdle
    /\ SendIdle
    /\ StoreIdle
    /\ dpc = "ready"
    /\ ctimeKind \in CtimeKinds
    /\ clock = 0
    /\ ctime = <<>>
    /\ scanLen = 0
    /\ scanPos = 0
    /\ scansDone = 0
    /\ listing = <<>>

\* a scan into the directory starts; it will write n screenshots (the loop
\* captures and the final one); nothing in the directory is removed
StartScan ==
    /\ dpc \in {"ready", "scanned", "listed"}
    /\ scansDone < MaxScans
    /\ \E n \in 1..MaxScanLen : scanLen' = n
    /\ scanPos' = 0
    /\ dpc' = "scanning"
    /\ UNCHANGED <<nonDirVars, ctimeKind, clock, ctime, scansDone, listing>>

\* page.screenshot(path=.../screenshot_<scanPos>.png): the file is created
\* or rewritten
WriteScreenshot ==
    /\ dpc = "scanning"
    /\ scanPos < scanLen
    /\ clock' = clock + 1
    /\ ctime' = [i \in DOMAIN ctime \cup {scanPos} |->
                    IF i = scanPos THEN CtimeAfterWrite(ctime, i, clock + 1) ELSE ctime[i]]
    /\ scanPos' = scanPos + 1
    /\ UNCHANGED <<nonDirVars, dpc, ctimeKind, scanLen, scansDone, listing>>

\* the scan has written its last screenshot
FinishScan ==
    /\ dpc = "scanning"
    /\ scanPos = scanLen
    /\ scansDone' = scansDone + 1
    /\ dpc' = "scanned"
    /\ UNCHANGED <<nonDirVars, ctimeKind, clock, ctime, scanLen, scanPos, listing>>

\* lines 32-45: every image file under the folder, sorted by getctime
ListImagePaths ==
    /\ dpc = "scanned"
    /\ listing' = SortedByCtime(DOMAIN ctime, ctime)
    /\ dpc' = "listed"
    /\ UNCHANGED <<nonDirVars, ctimeKind, clock, ctime, scanLen, scanPos, scansDone>>

DirNext ==
    \/ StartScan
    \/ WriteScreenshot
    \/ FinishScan
    \/ ListImagePaths

DirSpec == DirInit /\ [][DirNext]_vars

\* C20: the sequence get_image_paths returns after a scan is exactly the
\* screenshots of that scan in capture order (index 0 first), however many
\* scans wrote into the directory before.
C20_ListingIsLastScanInOrder ==
    dpc = "listed" => listing = [k \in 1..scanLen |-> k - 1]

(***************************************************************************)
(* The per-property loop of process_real_estate_company (main.py 64-142)   *)
(* and of check_property_updates (update.py 142-205)                       *)
(***************************************************************************)

Orchestrators == {"main", "update"}

\* the loop is left at the first skipped property
AfterSkipBreaks(kind) == "final"

\* continue (main.py 82, 114, 132; update.py 159, 177, 195): the next
\* iteration of the for loop
AfterSkip(kind) == "loop"

\* main.py 85-91: the directory of a result whose status is not "error";
\* process_property_listing puts the path create_directory returned there
DirectoryOf(st) == IF st = "success" THEN "directory" ELSE ""

\* the ways an iteration ends that skip the property
SkipKinds == {"status_error", "no_directory", "no_data", "analysis_raised"}

\* the for loop is about to start on a list of nProps properties
OrchInit ==
    /\ ScanIdle
    /\ AnalyzeIdle
    /\ ReconIdle
    /\ CloseIdle
    /\ SessIdle
    /\ DirIdle
    /\ OpsIdle
    /\ SendIdle
    /\ StoreIdle
    /\ orch \in Orchestrators
    /\ nProps \in (IF orch = "main" THEN 0..MaxProps ELSE 1..MaxProps)
    /\ opc = "loop"
    /\ idx = 0
    /\ attempted = <<>>
    /\ outcomes = <<>>
    /\ all_properties_data = <<>>
    /\ firebase_uploads = 0
    /\ outerRaised = FALSE

\* for idx, property_name in enumerate(..., 1): the next property is handed
\* to process_property_listing, or the list is exhausted
NextProperty ==
    /\ opc = "loop"
    /\ IF idx < nProps
       THEN /\ idx' = idx + 1
            /\ attempted' = Append(attempted, idx + 1)
            /\ opc' = "screens"
       ELSE /\ opc' = "final"
            /\ UNCHANGED <<idx, attempted>>
    /\ UNCHANGED <<nonOrchVars, orch, nProps, outcomes, all_properties_data,
                   firebase_uploads, outerRaised>>

\* main.py 70-96, update.py 148-159: process_property_listing returned its dict
ScreenshotsReturn ==
    /\ opc = "screens"
    /\ \E st \in {"success", "error"} :
          IF st = "error"
          THEN /\ outcomes' = Append(outcomes, "status_error")
               /\ opc' = AfterSkip("status_error")
          ELSE IF orch = "main" /\ DirectoryOf(st) = ""
          THEN /\ outcomes' = Append(outcomes, "no_directory")
               /\ opc' = AfterSkip("no_directory")
          ELSE /\ opc' = "analyze"
               /\ UNCHANGED outcomes
    /\ UNCHANGED <<nonOrchVars, orch, nProps, idx, attempted, all_properties_data,
                   firebase_uploads, outerRaised>>

\* process_property_listing raised (five_property_details_agent.py 36-59 are
\* outside its try): the call is outside the inner try of the loop, the
\* exception reaches the outer except clause
ListingRaises ==
    /\ opc = "screens"
    /\ outerRaised' = TRUE
    /\ opc' = "aborted"
    /\ UNCHANGED <<nonOrchVars, orch, nProps, idx, attempted, outcomes,
                   all_properties_data, firebase_uploads>>

\* main.py 107-118, update.py 170-181: analyze_property_details returned
AnalysisReturns ==
    /\ opc = "analyze"
    /\ \E property_data \in {"data", "none"} :
          IF property_data = "none"
          THEN /\ outcomes' = Append(outcomes, "no_data")
               /\ opc' = AfterSkip("no_data")
               /\ UNCHANGED <<all_properties_data, firebase_uploads>>
          ELSE /\ firebase_uploads' = firebase_uploads + 1
               /\ all_properties_data' = Append(all_properties_data, idx)
               /\ opc' = "save"
               /\ UNCHANGED outcomes
    /\ UNCHANGED <<nonOrchVars, orch, nProps, idx, attempted, outerRaised>>

\* main.py 128-132, update.py 191-195: analyze_property_details raised
AnalysisRaises ==
    /\ opc = "analyze"
    /\ outcomes' = Append(outcomes, "analysis_raised")
    /\ opc' = AfterSkip("analysis_raised")
    /\ UNCHANGED <<nonOrchVars, orch, nProps, idx, attempted, all_properties_data,
                   firebase_uploads, outerRaised>>

\* main.py 120-126, update.py 183-189: property_<idx>.json is written, or
\* open / json.dump raises into the inner except clause
SaveProperty ==
    /\ opc = "save"
    /\ \E written_ok \in BOOLEAN :
          outcomes' = Append(outcomes, IF written_ok THEN "saved" ELSE "save_raised")
    /\ opc' = "loop"
    /\ UNCHANGED <<nonOrchVars, orch, nProps, idx, attempted, all_properties_data,
                   firebase_uploads, outerRaised>>

\* main.py 135-142, update.py 198-208: the final results are written
SaveFinalResults ==
    /\ opc = "final"
    /\ opc' = "done"
    /\ UNCHANGED <<nonOrchVars, orch, nProps, idx, attempted, outcomes,
                   all_properties_data, firebase_uploads, outerRaised>>

\* main.py 136, update.py 199: open raises into the outer except clause
FinalRaises ==
    /\ opc = "final"
    /\ outerRaised' = TRUE
    /\ opc' = "aborted"
    /\ UNCHANGED <<nonOrchVars, orch, nProps, idx, attempted, outcomes,
                   all_properties_data, firebase_uploads>>

OrchNext ==
    \/ NextProperty
    \/ ScreenshotsReturn
    \/ ListingRaises
    \/ AnalysisReturns
    \/ AnalysisRaises
    \/ SaveProperty
    \/ SaveFinalResults
    \/ FinalRaises

\* every awaited call returns or raises and the coroutine goes on
OrchSpec == OrchInit /\ [][OrchNext]_vars /\ WF_vars(OrchNext)

\* C21: the properties are attempted once each and in list order; an
\* iteration that ends with a screenshot status error, an empty analysis
\* result or an exception of the analysis leads to the next iteration; when
\* the final-results step is reached every property was attempted; and the
\* run reaches that step unless an exception of another kind reached the
\* outer except clause.
C21_FailureSkipsOnlyThatProperty ==
    /\ [](\A k \in 1..Len(attempted) : attempted[k] = k)
    /\ [](opc \in {"final", "done"} => Len(attempted) = nProps)
    /\ [][(Len(outcomes') > Len(outcomes) /\ Last(outcomes') \in SkipKinds)
            => (opc' = "loop" /\ idx' = idx /\ attempted' = attempted)]_vars
    /\ <>(opc = "final" \/ outerRaised)

\* a run of check_property_updates over three properties: the first failed
\* with a status error, the second with an exception of the analysis, the
\* third was saved, and the final results were written
C21_Witness ==
    /\ orch = "update"
    /\ opc = "done"
    /\ nProps = 3
    /\ outcomes = <<"status_error", "analysis_raised", "saved">>
    /\ attempted = <<1, 2, 3>>

(***************************************************************************)
(* capture_property_screenshots, one awaited page-driver operation at a    *)
(* time: the coroutine issues an operation, is suspended in its await, and *)
(* goes on when the operation has completed                                *)
(***************************************************************************)

\* an operation, its argument and the step of the function that issues it
Op(kind, arg, at) == [op |-> kind, arg |-> arg, at |-> at]

\* the awaited operations of each step, in program order
OpsOf(p) ==
    CASE p = "start" ->
            <<Op("get_current_page", 0, p), Op("location_href", 0, p), Op("wait", 7000, p)>>
      [] p = "measuring" -> <<Op("scrollHeight", 0, p)>>
      [] p = "positioning" ->
            <<Op("smoothScrollTo", current_scroll, p), Op("wait", 3000, p)>>
      [] p = "jiggle" -> <<Op("scrollBy", JiggleDelta, p), Op("wait", 2000, p)>>
      [] p = "reposition" ->
            <<Op("scrollTo", RepositionTarget(current_scroll, scrollY), p),
              Op("wait", 1000, p)>>
      [] p = "capturing" -> <<Op("screenshot", screenshot_count, p)>>
      [] p = "remeasuring" -> <<Op("scrollHeight", 0, p)>>
      [] p = "finishing" ->
            <<Op("scrollTo", FinalScrollTarget(page_height, current_scroll), p),
              Op("wait", 3000, p)>>
      [] p = "finalCapture" -> <<Op("screenshot", screenshot_count, p)>>
      [] p = "scrollTop" -> <<Op("smoothScrollTo", 0, p), Op("wait", 2000, p)>>

\* line 70: while current_scroll < page_height
AfterLoopTest(cs, ph) == IF cs < ph THEN "positioning" ELSE "finishing"

\* the step after the last operation of step p
StepAfter(p, cs, ph) ==
    CASE p = "start" -> "measuring"
      [] p = "measuring" -> AfterLoopTest(cs, ph)
      [] p = "positioning" -> "jiggle"
      [] p = "jiggle" -> "reposition"
      [] p = "reposition" -> "capturing"
      [] p = "capturing" -> "remeasuring"
      [] p = "remeasuring" -> AfterLoopTest(cs, ph)
      [] p = "finishing" -> "finalCapture"
      [] p = "finalCapture" -> "scrollTop"
      [] p = "scrollTop" -> "done"

\* the operation started without await: the coroutine goes on at once
AwaitLeavesRunning(o) == FALSE

\* await <operation>: the coroutine is suspended until the operation completes
AwaitSuspends(o) == TRUE

\* a scroll with behavior 'smooth' goes on in the page after evaluate has
\* returned; window.scrollTo(0, y) and window.scrollBy(0, d) move the page
\* at once and end a smooth scroll that is under way
AnimatingAfter(o, now) ==
    CASE o.op = "smoothScrollTo" -> TRUE
      [] o.op \in {"scrollTo", "scrollBy"} -> FALSE
      [] OTHER -> now

\* the offset the page was last asked to take
ScrollYAfter(o, y) ==
    CASE o.op \in {"smoothScrollTo", "scrollTo"} -> o.arg
      [] o.op = "scrollBy" -> y + o.arg
      [] OTHER -> y

\* the coroutine reaches its next await and issues the operation
IssueOp ==
    /\ pc \in DriverPoints
    /\ ~suspended
    /\ pc = "capturing" => screenshot_count < MaxShots
    /\ opLog' = Append(opLog, OpsOf(pc)[opIndex + 1])
    /\ inflight' = inflight + 1
    /\ suspended' = AwaitSuspends(OpsOf(pc)[opIndex + 1])
    /\ UNCHANGED <<scanVars, opIndex, animating, nonScanOpsVars>>

\* the operation completes and the coroutine runs up to its next await
CompleteOp ==
    /\ suspended
    /\ inflight > 0
    /\ inflight' = inflight - 1
    /\ suspended' = FALSE
    /\ scrollY' = ScrollYAfter(Last(opLog), scrollY)
    /\ animating' = AnimatingAfter(Last(opLog), animating)
    /\ page_height' =
          IF pc = "measuring" THEN docHeight
          ELSE IF pc = "remeasuring" THEN UpdatedPageHeight(page_height, docHeight)
          ELSE page_height
    /\ lastMeasured' = IF pc \in {"measuring", "remeasuring"} THEN docHeight
                       ELSE lastMeasured
    /\ maxMeasured' = IF pc \in {"measuring", "remeasuring"} /\ docHeight > maxMeasured
                      THEN docHeight ELSE maxMeasured
    /\ scroll_step' = IF pc = "measuring" THEN ScrollStep(viewport_height)
                      ELSE scroll_step
    /\ current_scroll' = IF pc = "capturing" THEN current_scroll + scroll_step
                         ELSE current_scroll
    /\ screenshot_count' = IF pc = "capturing" THEN NextScreenshotCount(screenshot_count)
                           ELSE screenshot_count
    /\ screenshot_paths' = IF pc \in {"capturing", "finalCapture"}
                           THEN Append(screenshot_paths, screenshot_count)
                           ELSE screenshot_paths
    /\ offsets' = IF pc \in {"capturing", "finalCapture"} THEN Append(offsets, scrollY)
                  ELSE offsets
    /\ IF opIndex + 1 = Len(OpsOf(pc))
       THEN /\ opIndex' = 0
            /\ pc' = StepAfter(pc, current_scroll', page_height')
       ELSE /\ opIndex' = opIndex + 1
            /\ pc' = pc
    /\ scanResult' = IF pc' = "done"
                     THEN [kind |-> "returned", paths |-> screenshot_paths]
                     ELSE scanResult
    /\ UNCHANGED <<pageVars, driverFailed, agentOutcome, status, opLog, nonScanOpsVars>>

\* the operation raises: the exception leaves the function
OpFails ==
    /\ suspended
    /\ inflight > 0
    /\ inflight' = inflight - 1
    /\ suspended' = FALSE
    /\ driverFailed' = TRUE
    /\ scanResult' = OnDriverError(screenshot_paths)
    /\ pc' = "aborted"
    /\ UNCHANGED <<pageVars, scrollY, localVars, histVars, agentOutcome, status,
                   opIndex, opLog, animating, nonScanOpsVars>>

\* the page finishes a smooth scroll
AnimationEnds ==
    /\ animating
    /\ animating' = FALSE
    /\ UNCHANGED <<scanVars, suspended, inflight, opIndex, opLog, nonScanOpsVars>>

OpsNext ==
    \/ IssueOp
    \/ CompleteOp
    \/ OpFails
    \/ AnimationEnds

OpsSpec == Init /\ [][OpsNext]_vars

C23_SettleSequenceBeforeCapture ==
    \A i \in 1..Len(opLog) :
        (opLog[i].op = "screenshot" /\ opLog[i].at = "capturing") =>
            /\ i > 6
            /\ opLog[i - 6].op = "smoothScrollTo"
            /\ opLog[i - 5].op = "wait"
            /\ opLog[i - 4].op = "scrollBy"
            /\ opLog[i - 4].arg > 0
            /\ opLog[i - 3].op = "wait"
            /\ opLog[i - 2].op = "scrollTo"
            /\ opLog[i - 2].arg = opLog[i - 6].arg
            /\ opLog[i - 1].op = "wait"
            /\ Len(offsets) > opLog[i].arg => offsets[opLog[i].arg + 1] = opLog[i - 2].arg

\* the second capture of the loop was taken at a positive target offset
C23_Witness ==
    /\ Len(offsets) >= 2
    /\ offsets[2] > 0
    /\ \E i \in 1..Len(opLog) :
          /\ opLog[i].op = "screenshot"
          /\ opLog[i].at = "capturing"
          /\ opLog[i].arg = 1
          /\ opLog[i - 2].arg = offsets[2]

(***************************************************************************)
(* The screenshots of one property: written by capture_property_screenshots *)
(* and read by analyze_property_details, over the properties of a run and  *)
(* over runs; nothing removes a file                                       *)
(***************************************************************************)

\* the files of a directory
FilesIn(files, dir) == {f \in files : f.path.dir = dir}

\* page.screenshot(path=...): the file is created or rewritten
AfterWrite(files, path, r, number) ==
    {f \in files : f.path # path} \cup {[path |-> path, run |-> r, prop |-> number]}

\* six_property_screenshots_analyzer.py line 96:
\* folder_path = create_directory(property_url, property_number)
AnalyzerFolder(passed, page, number) == CreateDirectory(passed, number)

\* a run of the orchestrator starts on a company's website
SendInit ==
    /\ ScanIdle
    /\ AnalyzeIdle
    /\ ReconIdle
    /\ CloseIdle
    /\ SessIdle
    /\ DirIdle
    /\ OrchIdle
    /\ OpsIdle
    /\ StoreIdle
    /\ spc = "idle"
    /\ run = 1
    /\ sendIdx = 0
    /\ analyzerHost \in Hosts
    /\ pageHost = <<>>
    /\ disk = {}
    /\ captured = {}
    /\ sent = {}
    /\ sendRaised = FALSE

\* the loop takes the next property and the agent opens its page, on the
\* company's website or wherever the listing leads
AgentOpensProperty ==
    /\ spc \in {"idle", "analysed"}
    /\ sendIdx < MaxNumber
    /\ sendIdx' = sendIdx + 1
    /\ pageHost' \in Hosts
    /\ captured' = {}
    /\ sent' = {}
    /\ sendRaised' = FALSE
    /\ spc' = "scanning"
    /\ UNCHANGED <<nonSendVars, run, analyzerHost, disk>>

\* property_screenshotter.py lines 53-56 and 93-95, 109-111: a screenshot
\* is written under create_directory(current_url, address)
ScannerWrites ==
    /\ spc = "scanning"
    /\ Cardinality(captured) < MaxScanLen
    /\ LET path == ScreenshotPath(CreateDirectory(pageHost, sendIdx), Cardinality(captured))
       IN /\ disk' = AfterWrite(disk, path, run, sendIdx)
          /\ captured' = captured \cup {path}
    /\ UNCHANGED <<nonSendVars, spc, run, sendIdx, analyzerHost, pageHost, sent, sendRaised>>

\* the scan returns after its final capture
ScanReturns ==
    /\ spc = "scanning"
    /\ captured # {}
    /\ spc' = "scanned"
    /\ UNCHANGED <<nonSendVars, run, sendIdx, analyzerHost, pageHost, disk, captured,
                   sent, sendRaised>>

\* six_property_screenshots_analyzer.py lines 96-102: the folder from the
\* URL the orchestrator passed, every image in it, ValueError when none
AnalyzerReads ==
    /\ spc = "scanned"
    /\ sent' = {f.path : f \in FilesIn(disk, AnalyzerFolder(analyzerHost, pageHost, sendIdx))}
    /\ sendRaised' = (sent' = {})
    /\ spc' = "analysed"
    /\ UNCHANGED <<nonSendVars, run, sendIdx, analyzerHost, pageHost, disk, captured>>

\* the program is run again on the same website; the Properties directory
\* is as the earlier run left it
NextRun ==
    /\ spc = "analysed"
    /\ run < MaxRuns
    /\ run' = run + 1
    /\ sendIdx' = 0
    /\ spc' = "idle"
    /\ UNCHANGED <<nonSendVars, analyzerHost, pageHost, disk, captured, sent, sendRaised>>

SendNext ==
    \/ AgentOpensProperty
    \/ ScannerWrites
    \/ ScanReturns
    \/ AnalyzerReads
    \/ NextRun

SendSpec == SendInit /\ [][SendNext]_vars

\* C27: the images analyze_property_details reads for a property are
\* exactly the screenshots the scan of that property wrote in that run: the
\* directory read is the directory written, and it holds no file of an
\* earlier property, an earlier run or a longer earlier scan.
C27_AnalyzerReadsThisScan ==
    spc = "analysed" =>
        /\ AnalyzerFolder(analyzerHost, pageHost, sendIdx) = CreateDirectory(pageHost, sendIdx)
        /\ sent = captured

(***************************************************************************)
(* get_properties_by_url and the first step of check_property_updates      *)
(***************************************************************************)

\* str.lower()
StrLower(str) == [i \in 1..Len(str) |-> Lower(str[i])]

\* sub in str
Contains(str, sub) ==
    \E i \in 0..(Len(str) - Len(sub)) : SubSeq(str, i + 1, i + Len(sub)) = sub

\* a stored property: its url ('' when the key is missing) and its name
StoredProps == [url : {<<"a">>, <<"A", "b">>, <<>>}, name : {<<"x">>}, hasName : BOOLEAN]

\* url arguments of the caller
SearchUrls == {<<"a">>, <<" ", "a", "B", " ">>}

\* the steps of the read that can raise: initialize_firebase (no key file)
\* and ref.get() (no connection, no permission)
StoreFailures == {"none", "initialize", "get"}

\* prop.get('name', 'N/A')
NameOf(prop) == IF prop.hasName THEN prop.name ELSE <<"N", "/", "A">>

\* lines 55-58: names of the properties whose url contains the search url
RECURSIVE Matching(_, _)
Matching(props, search_url) ==
    IF props = <<>> THEN <<>>
    ELSE (IF Contains(StrLower(Head(props).url), search_url)
          THEN <<NameOf(Head(props))>> ELSE <<>>)
         \o Matching(Tail(props), search_url)

\* lines 60-62: except Exception: print, return []
OnStoreError == [kind |-> "returned", value |-> <<>>]

\* check_property_updates calls get_properties_by_url(company_url)
StoreInit ==
    /\ ScanIdle
    /\ AnalyzeIdle
    /\ ReconIdle
    /\ CloseIdle
    /\ SessIdle
    /\ DirIdle
    /\ OrchIdle
    /\ OpsIdle
    /\ SendIdle
    /\ stpc = "called"
    /\ properties \in SeqsUpTo(StoredProps, MaxStored)
    /\ search \in SearchUrls
    /\ storeFails \in StoreFailures
    /\ storeResult = [kind |-> "none", value |-> <<>>]
    /\ callerReports = "none"

\* display_firebase_data.py lines 36-62
GetPropertiesByUrl ==
    /\ stpc = "called"
    /\ storeResult' =
          IF storeFails # "none" THEN OnStoreError
          ELSE IF properties = <<>> THEN [kind |-> "returned", value |-> <<>>]
          ELSE [kind |-> "returned",
                value |-> Matching(properties, StrLower(Strip(search)))]
    /\ stpc' = "returned"
    /\ UNCHANGED <<nonStoreVars, properties, search, storeFails, callerReports>>

\* update.py lines 30-37: the names are listed, or "No existing properties
\* found in Firebase"
CallerReports ==
    /\ stpc = "returned"
    /\ callerReports' =
          IF storeResult.value # <<>> THEN "listed"
          ELSE "none_found"
    /\ stpc' = "reported"
    /\ UNCHANGED <<nonStoreVars, properties, search, storeFails, storeResult>>

StoreNext ==
    \/ GetPropertiesByUrl
    \/ CallerReports

StoreSpec == StoreInit /\ [][StoreNext]_vars

\* C29: when the read of a listing store that holds a property of the
\* company failed, what check_property_updates receives differs from what
\* it receives for an empty store, and it does not report that no stored
\* property was found.
C29_StoreFailureDistinctFromEmpty ==
    (storeFails # "none" /\ Matching(properties, StrLower(Strip(search))) # <<>>) =>
        /\ stpc \in {"returned", "reported"} =>
              storeResult # [kind |-> "returned", value |-> <<>>]
        /\ callerReports # "none_found"

====
